---- MODULE Spec2Model ----
(***************************************************************************)
(* Smart theming engine: the image metric extractors (image_analyzer.py),  *)
(* the feature aggregation and brand-guideline inference that              *)
(* font_suggester.py, layout_generator.py and js_component_suggester.py    *)
(* each carry, and the colour utilities of palette_extractor.py.           *)
(*                                                                         *)
(* Numbers.  Python floats are modelled by exact rationals <<n, d>> with   *)
(* d > 0, kept in lowest terms; None is the empty tuple.  Values the code  *)
(* rounds (round(x, 2), round(x, 3)) are rounded here to the same number   *)
(* of decimals.  Logarithms come from a table in micro-units.              *)
(***************************************************************************)
EXTENDS Integers, Sequences, FiniteSets, TLC

VARIABLES
    image_path,              \* analyze_image: the file at the path given
    results,                 \* analyze_image: the record it returns
    apc                      \* analyze_image: "loaded" | "analyzed"

imgVars == <<image_path, results, apc>>

\* one generation request
VARIABLES
    image_analysis_results,   \* the batch of analysis records
    brand_guidelines,         \* the caller's guideline dict
    layout_style,             \* the layout style the caller selected
    font_suggestions,         \* outcome of suggest_fonts
    js_component_suggestions, \* outcome of suggest_js_components
    layout_result             \* outcome of generate_layout

vars == <<image_analysis_results, brand_guidelines, layout_style, font_suggestions,
          js_component_suggestions, layout_result>>

\* extract_palette
VARIABLES
    image_paths,             \* the files at the paths given
    color_palette_style,     \* "vibrant" | "muted" | "pastel"
    mode,                    \* "light" | "dark"
    palette_data             \* outcome of extract_palette

palVars == <<image_paths, color_palette_style, mode, palette_data>>

\* get_contrast_ratio
VARIABLES
    rgb1,                    \* first colour
    rgb2,                    \* second colour
    contrast_ratio           \* the ratios computed for the two colours

conVars == <<rgb1, rgb2, contrast_ratio>>

\* suggest_accessible_color
VARIABLES
    original_rgb,            \* the foreground colour given
    background_rgb,          \* the background colour given
    target_contrast,         \* the contrast ratio asked for
    current_rgb,             \* the foreground colour after the adjustments so far
    lightness,               \* the HLS lightness after the adjustments so far
    attempt,                 \* lightness adjustments made so far
    spc                      \* "idle" | "looping" | "returned"

accVars == <<original_rgb, background_rgb, target_contrast, current_rgb, lightness, attempt, spc>>

\* calculate_color_harmony_score
VARIABLES
    harmony_colors,          \* the list of colours given
    harmony_result           \* outcome of calculate_color_harmony_score

harVars == <<harmony_colors, harmony_result>>

\* parse_brand_guidelines
VARIABLES
    guidelines_file,         \* what is at guidelines_path
    parsed                   \* outcome of parse_brand_guidelines

parVars == <<guidelines_file, parsed>>

allVars == <<imgVars, vars, palVars, conVars, accVars, harVars, parVars>>

(***************************************************************************)
(* Bounds                                                                  *)
(***************************************************************************)
MaxDim == 5          \* solid-colour images are up to MaxDim x MaxDim pixels
MaxPixels == 4       \* images of mixed pixels hold at most MaxPixels pixels

(***************************************************************************)
(* Float arithmetic as exact rationals                                     *)
(***************************************************************************)
None == <<>>

Abs(x) == IF x < 0 THEN -x ELSE x

Max2(a, b) == IF a >= b THEN a ELSE b

Min2(a, b) == IF a <= b THEN a ELSE b

RECURSIVE Gcd(_, _)
Gcd(a, b) == IF b = 0 THEN a ELSE Gcd(b, a % b)

Rat(n, d) == LET g == Gcd(Abs(n), d) IN <<n \div g, d \div g>>

RLess(x, y) ==
    LET g == Gcd(x[2], y[2]) IN x[1] * (y[2] \div g) < y[1] * (x[2] \div g)

RLeq(x, y) ==
    LET g == Gcd(x[2], y[2]) IN x[1] * (y[2] \div g) <= y[1] * (x[2] \div g)

REq(x, y) ==
    LET g == Gcd(x[2], y[2]) IN x[1] * (y[2] \div g) = y[1] * (x[2] \div g)

RAdd(x, y) ==
    LET g == Gcd(x[2], y[2])
    IN  Rat(x[1] * (y[2] \div g) + y[1] * (x[2] \div g), (x[2] \div g) * y[2])

RSub(x, y) == RAdd(x, <<-y[1], y[2]>>)

RAbs(x) == <<Abs(x[1]), x[2]>>

RMul(x, y) ==
    LET g1 == Gcd(Abs(x[1]), y[2])
        g2 == Gcd(Abs(y[1]), x[2])
    IN  Rat((x[1] \div g1) * (y[1] \div g2), (x[2] \div g2) * (y[2] \div g1))

\* a division by one more than the count
RDivByNext(x, k) == Rat(x[1], x[2] * (k + 1))

RDivInt(x, k) == Rat(x[1], x[2] * k)

\* round(): n/d to the nearest integer, ties to even, for n >= 0 and d > 0
RoundDiv(n, d) ==
    LET q == n \div d
        r == n % d
    IN  IF 2 * r > d \/ (2 * r = d /\ q % 2 = 1) THEN q + 1 ELSE q

RECURSIVE SumSeq(_)
SumSeq(s) == IF s = <<>> THEN 0 ELSE Head(s) + SumSeq(Tail(s))

Range(s) == {s[i] : i \in 1..Len(s)}

\* log2(k) in micro-units, k in 1..64
Log2Micro ==
    <<0, 1000000, 1584963, 2000000, 2321928, 2584963, 2807355, 3000000,
      3169925, 3321928, 3459432, 3584963, 3700440, 3807355, 3906891, 4000000,
      4087463, 4169925, 4247928, 4321928, 4392317, 4459432, 4523562, 4584963,
      4643856, 4700440, 4754888, 4807355, 4857981, 4906891, 4954196, 5000000,
      5044394, 5087463, 5129283, 5169925, 5209453, 5247928, 5285402, 5321928,
      5357552, 5392317, 5426265, 5459432, 5491853, 5523562, 5554589, 5584963,
      5614710, 5643856, 5672425, 5700440, 5727920, 5754888, 5781360, 5807355,
      5832890, 5857981, 5882643, 5906891, 5930737, 5954196, 5977280, 6000000>>

(***************************************************************************)
(* image_analyzer.py: pixel arrays                                         *)
(***************************************************************************)
\* An RGB pixel array is a sequence of rows, each a sequence of <<r, g, b>>.
Height(px) == Len(px)

Width(px) == Len(px[1])

\* Image.convert("L"): ITU-R 601-2 luma, L = R*299/1000 + G*587/1000 + B*114/1000
GrayOf(rgb) == (rgb[1] * 19595 + rgb[2] * 38470 + rgb[3] * 7471 + 32768) \div 65536

\* img_array_gray
GrayArray(px) == [r \in 1..Height(px) |-> [c \in 1..Width(px) |-> GrayOf(px[r][c])]]

\* .flatten() / .reshape(-1, 3): the cells in row-major order
Flatten(arr) ==
    LET h == Len(arr)
        w == Len(arr[1])
    IN  [k \in 1..(h * w) |-> arr[((k - 1) \div w) + 1][((k - 1) % w) + 1]]

\* the difference of the two pixels taken signed, without np.abs
SignedSub(a, b) == a - b

\* a - b on uint8 arrays: the difference reduced modulo 256
U8Sub(a, b) == (a - b + 256) % 256

(***************************************************************************)
(* image_analyzer.py: metric extractors                                    *)
(***************************************************************************)
\* Symmetry Detection, top against flipped bottom half
SymmetryHorizontal(g) ==
    LET h    == Len(g)
        w    == Len(g[1])
        size == (h \div 2) * w
        horizontal_diff ==
            SumSeq([k \in 1..size |->
                      U8Sub(g[((k - 1) \div w) + 1][((k - 1) % w) + 1],
                            g[h - ((k - 1) \div w)][((k - 1) % w) + 1])])
        max_diff == 255 * size
    IN  IF size > 0 THEN Rat(max_diff - horizontal_diff, max_diff) ELSE Rat(0, 1)

\* Symmetry Detection, left against flipped right half
SymmetryVertical(g) ==
    LET h    == Len(g)
        w    == Len(g[1])
        hw   == w \div 2
        size == h * hw
        vertical_diff ==
            SumSeq([k \in 1..size |->
                      U8Sub(g[((k - 1) \div hw) + 1][((k - 1) % hw) + 1],
                            g[((k - 1) \div hw) + 1][w - ((k - 1) % hw)])])
        max_diff == 255 * size
    IN  IF size > 0 THEN Rat(max_diff - vertical_diff, max_diff) ELSE Rat(0, 1)

whitespace_threshold_high == 240

whitespace_threshold_low == 15

\* Whitespace Analysis: percent of near-white or near-black pixels, 2 decimals
WhitespacePercentage(g) ==
    LET flat == Flatten(g)
        total_pixels == Len(flat)
        num_light == Cardinality({k \in 1..total_pixels : flat[k] > whitespace_threshold_high})
        num_dark  == Cardinality({k \in 1..total_pixels : flat[k] < whitespace_threshold_low})
    IN  Rat(RoundDiv((num_light + num_dark) * 10000, total_pixels), 100)

RECURSIVE CeilLog2(_)
CeilLog2(n) == IF n <= 1 THEN 0 ELSE 1 + CeilLog2((n + 1) \div 2)

RECURSIVE Pow2(_)
Pow2(k) == IF k = 0 THEN 1 ELSE 2 * Pow2(k - 1)

\* boxcount(Z, k): boxes of side size that hold at least one filled cell
BoxCount(g, threshold, size) ==
    Cardinality({<<(r - 1) \div size, (c - 1) \div size>> :
                   <<r, c>> \in {rc \in (1..Len(g)) \X (1..Len(g[1])) :
                                   g[rc[1]][rc[2]] < threshold}})

\* the binarisation taken the way the docstring words it: pixels above the
\* threshold are the filled ones
FractalOfBrightPixels(g, threshold) ==
    LET inv == [r \in 1..Len(g) |-> [c \in 1..Len(g[1]) |-> 255 - g[r][c]]]
        filled == {rc \in (1..Len(g)) \X (1..Len(g[1])) : g[rc[1]][rc[2]] > threshold}
        K      == CeilLog2(Max2(Len(g), Len(g[1])))
        ks     == [i \in 1..Max2(K - 1, 0) |-> K + 1 - i]
        counts == [i \in 1..Len(ks) |-> BoxCount(inv, 255 - threshold, Pow2(ks[i]))]
        num    == SumSeq([i \in 1..Len(ks) |->
                            (K + 2 - 2 * ks[i]) * Log2Micro[counts[i]]])
        den    == SumSeq([i \in 1..Len(ks) |-> (K + 2 - 2 * ks[i]) * (K + 2 - 2 * ks[i])])
    IN  IF filled = {} THEN Rat(0, 1)
        ELSE IF Len(ks) < 2 THEN Rat(0, 1)
        ELSE Rat(RoundDiv(2 * num, den), 1000000)

\* calculate_fractal_dimension: slope of log(count) against log(1/size) over
\* the box sizes p, p/2, ..., 4, in micro-units
calculate_fractal_dimension(g, threshold) ==
    LET filled == {rc \in (1..Len(g)) \X (1..Len(g[1])) : g[rc[1]][rc[2]] < threshold}
        K      == CeilLog2(Max2(Len(g), Len(g[1])))
        ks     == [i \in 1..Max2(K - 1, 0) |-> K + 1 - i]
        counts == [i \in 1..Len(ks) |-> BoxCount(g, threshold, Pow2(ks[i]))]
        num    == SumSeq([i \in 1..Len(ks) |->
                            (K + 2 - 2 * ks[i]) * Log2Micro[counts[i]]])
        den    == SumSeq([i \in 1..Len(ks) |-> (K + 2 - 2 * ks[i]) * (K + 2 - 2 * ks[i])])
    IN  IF filled = {} THEN Rat(0, 1)
        ELSE IF Len(ks) < 2 THEN Rat(0, 1)
        ELSE Rat(RoundDiv(2 * num, den), 1000000)

\* calculate_image_entropy: Shannon entropy of the 256-bin histogram
calculate_image_entropy(g) ==
    LET flat == Flatten(g)
        n    == Len(flat)
        hist == [v \in Range(flat) |-> Cardinality({k \in 1..n : flat[k] = v})]
        \* sum over the nonzero bins of count * log2(count)
        clogc == SumSeq([k \in 1..n |-> Log2Micro[hist[flat[k]]]])
    IN  Rat(n * Log2Micro[n] - clogc, n * 1000000)

\* floor(sqrt(q)) for 0 <= q, searched in lo..hi
RECURSIVE ISqrt(_, _, _)
ISqrt(q, lo, hi) ==
    IF lo >= hi THEN lo
    ELSE LET mid == (lo + hi + 1) \div 2
         IN  IF mid * mid <= q THEN ISqrt(q, mid, hi) ELSE ISqrt(q, lo, mid - 1)

RECURSIVE Pow10(_)
Pow10(k) == IF k = 0 THEN 1 ELSE 10 * Pow10(k - 1)

\* floor(x * 10^digits / d) for x >= 0 and d > 0, by long division
RECURSIVE ScaledQuotient(_, _, _)
ScaledQuotient(x, d, digits) ==
    IF digits = 0 THEN x \div d
    ELSE (x \div d) * Pow10(digits) + ScaledQuotient((x % d) * 10, d, digits - 1)

\* calculate_visual_balance_score: 1 - min(1, distance / max_distance) of the
\* luminance-weighted centre of mass from the geometric centre, to 3 decimals
calculate_visual_balance_score(g) ==
    LET h  == Len(g)
        w  == Len(g[1])
        flat == Flatten(g)
        total_luminance == SumSeq(flat)
        Sx == SumSeq([k \in 1..(h * w) |-> flat[k] * ((k - 1) % w)])
        Sy == SumSeq([k \in 1..(h * w) |-> flat[k] * ((k - 1) \div w)])
        \* center - geometric_center = A / (2 * total), B / (2 * total)
        A  == 2 * Sx - (w - 1) * total_luminance
        B  == 2 * Sy - (h - 1) * total_luminance
        \* max_distance^2 = M / 4
        M  == (w - 1) * (w - 1) + (h - 1) * (h - 1)
        c  == Gcd(Gcd(Abs(A), Abs(B)), total_luminance)
        N  == (A \div c) * (A \div c) + (B \div c) * (B \div c)
        D  == (total_luminance \div c) * (total_luminance \div c) * M
        \* (distance / max_distance)^2 = N / D
        twice == ISqrt(ScaledQuotient(4 * N, D, 6), 0, 2000)
    IN  IF total_luminance = 0 THEN Rat(0, 1)
        ELSE IF M = 0 THEN Rat(1, 1)
        ELSE IF N >= D THEN Rat(0, 1)
        ELSE Rat(1000 - ((twice + 1) \div 2), 1000)

\* round(x, 3) and round(x, 2) of a non-negative rational
RoundTo(x, scale) ==
    LET c     == Gcd(scale, x[2])
        s     == scale \div c
        d     == x[2] \div c
        whole == (x[1] \div d) * s
        rest  == (x[1] % d) * s
        q     == whole + (rest \div d)
        r     == rest % d
    IN  Rat(IF 2 * r > d \/ (2 * r = d /\ q % 2 = 1) THEN q + 1 ELSE q, scale)

(***************************************************************************)
(* image_analyzer.py: tags and the analysis record                         *)
(***************************************************************************)
\* GOLDEN_RATIO = 1.61803398875, in units of 1/10000
GOLDEN_RATIO_E4 == 16180

\* list.remove(x): drops the first occurrence only
RECURSIVE RemoveFirst(_, _)
RemoveFirst(s, x) ==
    IF s = <<>> THEN <<>>
    ELSE IF Head(s) = x THEN Tail(s)
    ELSE <<Head(s)>> \o RemoveFirst(Tail(s), x)

\* Every tag the analyzer, the fixtures and the guidelines use, in the order
\* a joined string lists them.
TagOrder ==
    <<"neutral", "unknown", "sans-serif", "light", "bold", "geometric", "expressive",
      "display", "serif", "script", "energetic", "warm", "vibrant", "calm", "muted",
      "minimalist", "dense", "balanced", "professional", "dynamic", "creative",
      "playful">>

\* ", ".join(set(tags)): a comma-separated string is modelled by the sequence
\* of its tokens; the set removes duplicates
JoinSet(tags) == SelectSeq(TagOrder, LAMBDA t : t \in Range(tags))

\* s.split(',') with strip() of every token: the tokens as a set
SplitTags(str) == Range(str)

\* colorsys.rgb_to_hls(...)[2] of the mean colour, from the channel sums over
\* n pixels
AvgSaturation(sums, n) ==
    LET maxc == Max2(sums[1], Max2(sums[2], sums[3]))
        minc == Min2(sums[1], Min2(sums[2], sums[3]))
        full == 255 * n
    IN  IF minc = maxc THEN Rat(0, 1)
        ELSE IF maxc + minc <= full THEN Rat(maxc - minc, maxc + minc)
        ELSE Rat(maxc - minc, 2 * full - maxc - minc)

\* 7. Typography Inference
TypographyInference(ws, sym_h, sym_v, avg_saturation) ==
    LET s1 == IF RLess(Rat(70, 1), ws) THEN <<"light">> ELSE <<>>
        s2 == IF RLess(ws, Rat(30, 1)) THEN Append(s1, "bold") ELSE s1
        s3 == IF RLess(Rat(85, 100), sym_h) /\ RLess(Rat(85, 100), sym_v)
                 THEN Append(s2, "geometric")
              ELSE IF RLess(sym_h, Rat(5, 10)) \/ RLess(sym_v, Rat(5, 10))
                 THEN Append(s2, "expressive")
              ELSE s2
        s4 == IF RLess(Rat(6, 10), avg_saturation) THEN Append(s3, "display")
              ELSE IF RLess(avg_saturation, Rat(2, 10)) THEN Append(s3, "serif")
              ELSE s3
        s5 == IF "bold" \in Range(s4) /\ "light" \in Range(s4)
                 THEN IF RLess(ws, Rat(50, 1)) THEN RemoveFirst(s4, "light")
                      ELSE RemoveFirst(s4, "bold")
              ELSE s4
    IN  IF s5 # <<>> THEN JoinSet(s5) ELSE <<"sans-serif">>

\* 8. Mood/Emotion Detection
MoodEmotion(sums, ws, sym_h, sym_v, avg_saturation) ==
    LET m1 == IF sums[1] > sums[2] /\ sums[1] > sums[3]
                 THEN IF RLess(Rat(5, 10), avg_saturation) THEN <<"energetic">>
                      ELSE <<"warm">>
              ELSE IF sums[3] > sums[1] /\ sums[3] > sums[2]
                 THEN IF RLess(Rat(5, 10), avg_saturation) THEN <<"vibrant">>
                      ELSE <<"calm">>
              ELSE <<"neutral">>
        m2 == IF RLess(Rat(7, 10), avg_saturation) THEN Append(m1, "vibrant")
              ELSE IF RLess(avg_saturation, Rat(3, 10)) THEN Append(m1, "muted")
              ELSE m1
        m3 == IF RLess(Rat(70, 1), ws)
                 THEN LET a == Append(m2, "minimalist")
                      IN  IF "vibrant" \in Range(a) THEN RemoveFirst(a, "vibrant") ELSE a
              ELSE IF RLess(ws, Rat(30, 1)) THEN Append(m2, "dense")
              ELSE m2
        avg_symmetry == RDivInt(RAdd(sym_h, sym_v), 2)
        m4 == IF RLess(Rat(8, 10), avg_symmetry) THEN m3 \o <<"balanced", "professional">>
              ELSE IF RLess(avg_symmetry, Rat(5, 10)) THEN m3 \o <<"dynamic", "creative">>
              ELSE m3
    IN  IF m4 # <<>> THEN JoinSet(m4) ELSE <<"neutral">>

\* get_aesthetic_score_from_gemini: the simulated score.  The file-name tests
\* look for '_' and '.' in a base64 string, which holds neither, so the
\* simulated score is always the neutral one.
get_aesthetic_score_from_gemini == 5

\* results as analyze_image initialises it, returned as is when the image
\* cannot be opened
InitialResults ==
    [symmetry |-> [horizontal |-> None, vertical |-> None],
     whitespace_percentage |-> None,
     aspect_ratio |-> None,
     golden_ratio_aspect_match |-> FALSE,
     fractal_dimension |-> None,
     entropy |-> None,
     visual_balance_score |-> None,
     typography_inference |-> <<"unknown">>,
     mood_emotion |-> <<"neutral">>,
     aesthetic_neural_score |-> [score |-> None]]

\* analyze_image on a file [exists, px]
analyze_image(file) ==
    IF ~file.exists THEN InitialResults
    ELSE
    LET px    == file.px
        g     == GrayArray(px)
        n     == Height(px) * Width(px)
        aspect100 == RoundDiv(100 * Width(px), Height(px))
        golden == \/ Abs(100 * aspect100 - GOLDEN_RATIO_E4) < 1000
                  \/ Abs(100 * aspect100 - (100000000 \div GOLDEN_RATIO_E4)) < 1000
        sym_h == SymmetryHorizontal(g)
        sym_v == SymmetryVertical(g)
        ws    == WhitespacePercentage(g)
        flat  == Flatten(px)
        sums  == <<SumSeq([k \in 1..n |-> flat[k][1]]),
                   SumSeq([k \in 1..n |-> flat[k][2]]),
                   SumSeq([k \in 1..n |-> flat[k][3]])>>
        avg_saturation == AvgSaturation(sums, n)
    IN  [symmetry |-> [horizontal |-> sym_h, vertical |-> sym_v],
         whitespace_percentage |-> ws,
         aspect_ratio |-> Rat(aspect100, 100),
         golden_ratio_aspect_match |-> golden,
         fractal_dimension |-> RoundTo(calculate_fractal_dimension(g, 128), 1000),
         entropy |-> RoundTo(calculate_image_entropy(g), 1000),
         visual_balance_score |-> calculate_visual_balance_score(g),
         typography_inference |-> TypographyInference(ws, sym_h, sym_v, avg_saturation),
         mood_emotion |-> MoodEmotion(sums, ws, sym_h, sym_v, avg_saturation),
         aesthetic_neural_score |-> [score |-> Rat(get_aesthetic_score_from_gemini, 1)]]

(***************************************************************************)
(* Image analysis as a state machine: one file is given, analyze_image     *)
(* returns its record.                                                     *)
(***************************************************************************)
SolidColors ==
    {<<v, v, v>> : v \in 0..255}
        \cup {<<255, 0, 0>>, <<0, 0, 255>>, <<0, 128, 0>>, <<0, 0, 30>>, <<255, 200, 0>>}

PixelColors == {<<0, 0, 0>>, <<255, 255, 255>>, <<0, 0, 30>>, <<255, 0, 0>>, <<90, 120, 100>>}

SolidImage(h, w, col) == [exists |-> TRUE, px |-> [r \in 1..h |-> [c \in 1..w |-> col]]]

SolidImages == {SolidImage(h, w, col) : h \in 1..MaxDim, w \in 1..MaxDim, col \in SolidColors}

Shapes == {hw \in (1..MaxPixels) \X (1..MaxPixels) : hw[1] * hw[2] <= MaxPixels}

MixedImages ==
    UNION {{[exists |-> TRUE, px |-> p] : p \in [1..hw[1] -> [1..hw[2] -> PixelColors]]} :
             hw \in Shapes}

MissingFile == [exists |-> FALSE, px |-> <<>>]

ImageFiles == SolidImages \cup MixedImages \cup {MissingFile}

\* no image is analysed
ImageIdle ==
    /\ image_path = MissingFile
    /\ results = InitialResults
    /\ apc = "loaded"

\* no generation request is made
RequestIdle ==
    /\ image_analysis_results = <<>>
    /\ brand_guidelines = <<>>
    /\ layout_style = "minimal"
    /\ font_suggestions = <<>>
    /\ js_component_suggestions = <<>>
    /\ layout_result = <<>>

\* no palette is extracted
PaletteIdle ==
    /\ image_paths = <<>>
    /\ color_palette_style = "vibrant"
    /\ mode = "light"
    /\ palette_data = <<>>

\* no contrast is computed
ContrastIdle ==
    /\ rgb1 = <<0, 0, 0>>
    /\ rgb2 = <<0, 0, 0>>
    /\ contrast_ratio = <<>>

\* no accessible colour is searched for
AccessibleIdle ==
    /\ original_rgb = <<0, 0, 0>>
    /\ background_rgb = <<0, 0, 0>>
    /\ target_contrast = Rat(1, 1)
    /\ current_rgb = <<0, 0, 0>>
    /\ lightness = Rat(0, 1)
    /\ attempt = 0
    /\ spc = "idle"

\* no harmony score is computed
HarmonyIdle ==
    /\ harmony_colors = <<>>
    /\ harmony_result = <<>>

\* no guideline file is parsed
ParserIdle ==
    /\ guidelines_file = [exists |-> FALSE]
    /\ parsed = <<>>

InitImage ==
    /\ image_path \in ImageFiles
    /\ results = InitialResults
    /\ apc = "loaded"
    /\ RequestIdle
    /\ PaletteIdle
    /\ ContrastIdle
    /\ AccessibleIdle
    /\ HarmonyIdle
    /\ ParserIdle

AnalyzeImage ==
    /\ apc = "loaded"
    /\ results' = analyze_image(image_path)
    /\ apc' = "analyzed"
    /\ UNCHANGED image_path
    /\ UNCHANGED <<vars, palVars, conVars, accVars, harVars, parVars>>

NextImage == AnalyzeImage

SpecImage == InitImage /\ [][NextImage]_allVars
(***************************************************************************)
(* Analysis records and brand guidelines handed to the suggesters          *)
(***************************************************************************)
\* the batch holds at most MaxBatch analysis records
MaxBatch == 2

\* {}: the dict with no key
EmptyDict == [k \in {} |-> None]

\* d[k] = v on a dict
Put(d, k, v) == [j \in DOMAIN d \cup {k} |-> IF j = k THEN v ELSE d[j]]

\* what dict.get(k) gives for a missing key, among string values
NoneStr == "<None>"

\* d.get(k) for a key holding a string
Get(d, k) == IF k \in DOMAIN d THEN d[k] ELSE NoneStr

\* truth value of an optional string: None and "" are false
Truthy(v) == v # NoneStr /\ v # ""

\* principle.strip().lower() on the spellings the guidelines below use
StripLower(str) ==
    CASE str = "Structured" -> "structured"
      [] str = " bold "     -> "bold"
      [] str = "CLEAN"      -> "clean"
      [] OTHER              -> str

\* the analysis records of the __main__ fixtures of font_suggester.py
dummy_image_analysis_minimal_calm ==
    [symmetry |-> [horizontal |-> Rat(95, 100), vertical |-> Rat(95, 100)],
     whitespace_percentage |-> Rat(85, 1),
     aspect_ratio |-> Rat(15, 10),
     golden_ratio_aspect_match |-> FALSE,
     fractal_dimension |-> Rat(11, 10),
     entropy |-> Rat(2, 1),
     visual_balance_score |-> Rat(98, 100),
     typography_inference |-> <<"light", "geometric">>,
     mood_emotion |-> <<"calm", "minimalist", "balanced">>,
     aesthetic_neural_score |-> [score |-> Rat(9, 1)]]

dummy_image_analysis_dense_vibrant ==
    [symmetry |-> [horizontal |-> Rat(6, 10), vertical |-> Rat(5, 10)],
     whitespace_percentage |-> Rat(25, 1),
     aspect_ratio |-> Rat(133, 100),
     golden_ratio_aspect_match |-> FALSE,
     fractal_dimension |-> Rat(18, 10),
     entropy |-> Rat(75, 10),
     visual_balance_score |-> Rat(7, 10),
     typography_inference |-> <<"sans-serif", "bold">>,
     mood_emotion |-> <<"vibrant", "energetic", "dense">>,
     aesthetic_neural_score |-> [score |-> Rat(7, 1)]]

dummy_image_analysis_creative_playful ==
    [symmetry |-> [horizontal |-> Rat(4, 10), vertical |-> Rat(7, 10)],
     whitespace_percentage |-> Rat(50, 1),
     aspect_ratio |-> Rat(1, 1),
     golden_ratio_aspect_match |-> FALSE,
     fractal_dimension |-> Rat(16, 10),
     entropy |-> Rat(6, 1),
     visual_balance_score |-> Rat(85, 100),
     typography_inference |-> <<"script", "expressive">>,
     mood_emotion |-> <<"playful", "creative", "dynamic">>,
     aesthetic_neural_score |-> [score |-> Rat(8, 1)]]

dummy_image_analysis_golden_ratio ==
    [symmetry |-> [horizontal |-> Rat(9, 10), vertical |-> Rat(9, 10)],
     whitespace_percentage |-> Rat(60, 1),
     aspect_ratio |-> Rat(162, 100),
     golden_ratio_aspect_match |-> TRUE,
     fractal_dimension |-> Rat(155, 100),
     entropy |-> Rat(5, 1),
     visual_balance_score |-> Rat(95, 100),
     typography_inference |-> <<"geometric">>,
     mood_emotion |-> <<"balanced", "professional">>,
     aesthetic_neural_score |-> [score |-> Rat(9, 1)]]

\* the record app.py substitutes when the analysis gave no aesthetic score
FallbackAnalysis ==
    [symmetry |-> [horizontal |-> Rat(5, 10), vertical |-> Rat(5, 10)],
     whitespace_percentage |-> Rat(50, 1),
     aspect_ratio |-> Rat(177, 100),
     golden_ratio_aspect_match |-> FALSE,
     fractal_dimension |-> Rat(15, 10),
     entropy |-> Rat(4, 1),
     visual_balance_score |-> Rat(5, 10),
     typography_inference |-> <<"sans-serif">>,
     mood_emotion |-> <<"neutral">>,
     aesthetic_neural_score |-> [score |-> Rat(5, 1)]]

\* a calm record whose balance sits on the 0.9 threshold and whose mood
\* holds no layout tag
CalmOnThreshold ==
    [dummy_image_analysis_minimal_calm EXCEPT
        !.visual_balance_score = Rat(9, 10), !.mood_emotion = <<"calm">>]

\* a record that supplies some fields and leaves others null
PartialAnalysis ==
    [dummy_image_analysis_dense_vibrant EXCEPT
        !.whitespace_percentage = None, !.symmetry.horizontal = None,
        !.aesthetic_neural_score.score = None]

\* the image files the batch is analysed from
BatchFiles ==
    {MissingFile,
     SolidImage(2, 2, <<255, 255, 255>>),
     SolidImage(1, 1, <<90, 120, 100>>),
     [exists |-> TRUE, px |-> << << <<0, 0, 0>>, <<255, 0, 0>> >> >>]}

\* records analyze_image produced (cli.py 138-140, app.py 89)
AnalyzerRecords == {analyze_image(f) : f \in BatchFiles}

FixtureRecords ==
    {dummy_image_analysis_minimal_calm, dummy_image_analysis_dense_vibrant,
     dummy_image_analysis_creative_playful, dummy_image_analysis_golden_ratio,
     FallbackAnalysis, CalmOnThreshold, PartialAnalysis}

AnalysisRecords == AnalyzerRecords \cup FixtureRecords

Batches == UNION {[1..n -> AnalysisRecords] : n \in 0..MaxBatch}

\* brand guideline records: empty, fully specified, half specified, and
\* records that omit the font or the layout keys
BrandGuidelines ==
    {EmptyDict,
     [headingFont |-> "Georgia", bodyFont |-> "Verdana"],
     [headingFont |-> "Playfair Display", bodyFont |-> "Lora",
      layoutPreference |-> "modern", designPrinciples |-> <<"Structured", " bold ">>],
     [headingFont |-> "Georgia"],
     [bodyFont |-> "Open Sans"],
     [headingFont |-> "", bodyFont |-> "Verdana"],
     [layoutPreference |-> "modern"],
     [layoutPreference |-> "bold", designPrinciples |-> <<"CLEAN", "complex">>],
     [layoutPreference |-> "classic"],
     [primaryColor |-> "#112233"],
     [layoutPreference |-> "minimalist"],
     [layoutPreference |-> "playful"]}

LayoutStyles == {"minimal", "dense", "creative"}

(***************************************************************************)
(* Feature aggregation and guideline inference: the three suggesters each  *)
(* carry their own copy                                                    *)
(***************************************************************************)
RECURSIVE RSum(_)
RSum(s) == IF s = <<>> THEN Rat(0, 1) ELSE RAdd(Head(s), RSum(Tail(s)))

\* a column that keeps every record and reads a null as 0
NullAsZero(vals) == [i \in 1..Len(vals) |-> IF vals[i] = None THEN Rat(0, 1) ELSE vals[i]]

\* [a.get(f) for a in batch if a.get(f) is not None]
NonNull(vals) == SelectSeq(vals, LAMBDA v : v # None)

\* the tags of every string of the batch that is neither empty nor exactly
\* the sentinel
TagsOf(strs, sentinel) ==
    UNION {IF strs[i] # <<>> /\ strs[i] # <<sentinel>> THEN SplitTags(strs[i]) ELSE {} :
             i \in 1..Len(strs)}

\* the order in which a list built from a set of principles is written
PrincipleOrder == <<"structured", "organic", "bold", "subtle", "clean", "complex">>

\* list(inferred_design_principles)
ListOf(principles) == SelectSeq(PrincipleOrder, LAMBDA t : t \in principles)

\* font_suggester.py 56-96: the aggregated features of a batch
FontAggregate(batch) ==
    [avg_whitespace |->
         LET whitespaces == NonNull([i \in 1..Len(batch) |-> batch[i].whitespace_percentage])
         IN  IF whitespaces # <<>>
             THEN RDivInt(RDivInt(RSum(whitespaces), Len(whitespaces)), 100)
             ELSE Rat(5, 10),
     avg_h_symmetry |->
         LET h_symmetries == NonNull([i \in 1..Len(batch) |-> batch[i].symmetry.horizontal])
         IN  IF h_symmetries # <<>> THEN RDivInt(RSum(h_symmetries), Len(h_symmetries))
             ELSE Rat(5, 10),
     avg_v_symmetry |->
         LET v_symmetries == NonNull([i \in 1..Len(batch) |-> batch[i].symmetry.vertical])
         IN  IF v_symmetries # <<>> THEN RDivInt(RSum(v_symmetries), Len(v_symmetries))
             ELSE Rat(5, 10),
     avg_fractal_dimension |->
         LET fractal_dimensions == NonNull([i \in 1..Len(batch) |-> batch[i].fractal_dimension])
         IN  IF fractal_dimensions # <<>>
             THEN RDivInt(RSum(fractal_dimensions), Len(fractal_dimensions))
             ELSE Rat(15, 10),
     avg_entropy |->
         LET entropies == NonNull([i \in 1..Len(batch) |-> batch[i].entropy])
         IN  IF entropies # <<>> THEN RDivInt(RSum(entropies), Len(entropies))
             ELSE Rat(4, 1),
     avg_visual_balance |->
         LET visual_balances == NonNull([i \in 1..Len(batch) |-> batch[i].visual_balance_score])
         IN  IF visual_balances # <<>> THEN RDivInt(RSum(visual_balances), Len(visual_balances))
             ELSE Rat(5, 10),
     avg_aesthetic_score |->
         LET aesthetic_scores ==
                 NonNull([i \in 1..Len(batch) |-> batch[i].aesthetic_neural_score.score])
         IN  IF aesthetic_scores # <<>> THEN RDivInt(RSum(aesthetic_scores), Len(aesthetic_scores))
             ELSE Rat(5, 1),
     inferred_mood_tags |->
         TagsOf([i \in 1..Len(batch) |-> batch[i].mood_emotion], "neutral"),
     inferred_typography_tags |->
         TagsOf([i \in 1..Len(batch) |-> batch[i].typography_inference], "unknown")]

\* layout_generator.py 35-78: the aggregated features of a batch
LayoutAggregate(batch) ==
    [avg_whitespace |->
         LET whitespaces == NonNull([i \in 1..Len(batch) |-> batch[i].whitespace_percentage])
         IN  IF whitespaces # <<>>
             THEN RDivInt(RDivInt(RSum(whitespaces), Len(whitespaces)), 100)
             ELSE Rat(5, 10),
     avg_h_symmetry |->
         LET h_symmetries == NonNull([i \in 1..Len(batch) |-> batch[i].symmetry.horizontal])
         IN  IF h_symmetries # <<>> THEN RDivInt(RSum(h_symmetries), Len(h_symmetries))
             ELSE Rat(5, 10),
     avg_v_symmetry |->
         LET v_symmetries == NonNull([i \in 1..Len(batch) |-> batch[i].symmetry.vertical])
         IN  IF v_symmetries # <<>> THEN RDivInt(RSum(v_symmetries), Len(v_symmetries))
             ELSE Rat(5, 10),
     avg_fractal_dimension |->
         LET fractal_dimensions == NonNull([i \in 1..Len(batch) |-> batch[i].fractal_dimension])
         IN  IF fractal_dimensions # <<>>
             THEN RDivInt(RSum(fractal_dimensions), Len(fractal_dimensions))
             ELSE Rat(15, 10),
     avg_entropy |->
         LET entropies == NonNull([i \in 1..Len(batch) |-> batch[i].entropy])
         IN  IF entropies # <<>> THEN RDivInt(RSum(entropies), Len(entropies))
             ELSE Rat(4, 1),
     avg_visual_balance |->
         LET visual_balances == NonNull([i \in 1..Len(batch) |-> batch[i].visual_balance_score])
         IN  IF visual_balances # <<>> THEN RDivInt(RSum(visual_balances), Len(visual_balances))
             ELSE Rat(5, 10),
     avg_aesthetic_score |->
         LET aesthetic_scores ==
                 NonNull([i \in 1..Len(batch) |-> batch[i].aesthetic_neural_score.score])
         IN  IF aesthetic_scores # <<>> THEN RDivInt(RSum(aesthetic_scores), Len(aesthetic_scores))
             ELSE Rat(5, 1),
     inferred_mood_tags |->
         TagsOf([i \in 1..Len(batch) |-> batch[i].mood_emotion], "neutral"),
     inferred_typography_tags |->
         TagsOf([i \in 1..Len(batch) |-> batch[i].typography_inference], "unknown")]

\* js_component_suggester.py 18-62: the aggregated features of a batch
JsAggregate(batch) ==
    [avg_whitespace |->
         LET whitespaces == NonNull([i \in 1..Len(batch) |-> batch[i].whitespace_percentage])
         IN  IF whitespaces # <<>>
             THEN RDivInt(RDivInt(RSum(whitespaces), Len(whitespaces)), 100)
             ELSE Rat(5, 10),
     avg_h_symmetry |->
         LET h_symmetries == NonNull([i \in 1..Len(batch) |-> batch[i].symmetry.horizontal])
         IN  IF h_symmetries # <<>> THEN RDivInt(RSum(h_symmetries), Len(h_symmetries))
             ELSE Rat(5, 10),
     avg_v_symmetry |->
         LET v_symmetries == NonNull([i \in 1..Len(batch) |-> batch[i].symmetry.vertical])
         IN  IF v_symmetries # <<>> THEN RDivInt(RSum(v_symmetries), Len(v_symmetries))
             ELSE Rat(5, 10),
     avg_fractal_dimension |->
         LET fractal_dimensions == NonNull([i \in 1..Len(batch) |-> batch[i].fractal_dimension])
         IN  IF fractal_dimensions # <<>>
             THEN RDivInt(RSum(fractal_dimensions), Len(fractal_dimensions))
             ELSE Rat(15, 10),
     avg_entropy |->
         LET entropies == NonNull([i \in 1..Len(batch) |-> batch[i].entropy])
         IN  IF entropies # <<>> THEN RDivInt(RSum(entropies), Len(entropies))
             ELSE Rat(4, 1),
     avg_visual_balance |->
         LET visual_balances == NonNull([i \in 1..Len(batch) |-> batch[i].visual_balance_score])
         IN  IF visual_balances # <<>> THEN RDivInt(RSum(visual_balances), Len(visual_balances))
             ELSE Rat(5, 10),
     avg_aesthetic_score |->
         LET aesthetic_scores ==
                 NonNull([i \in 1..Len(batch) |-> batch[i].aesthetic_neural_score.score])
         IN  IF aesthetic_scores # <<>> THEN RDivInt(RSum(aesthetic_scores), Len(aesthetic_scores))
             ELSE Rat(5, 1),
     inferred_mood_tags |->
         TagsOf([i \in 1..Len(batch) |-> batch[i].mood_emotion], "neutral"),
     inferred_typography_tags |->
         TagsOf([i \in 1..Len(batch) |-> batch[i].typography_inference], "unknown"),
     avg_golden_ratio_match |->
         \E i \in 1..Len(batch) : batch[i].golden_ratio_aspect_match]

\* font_suggester.py 98-128: the guidelines synthesized from the aggregated features
FontInferGuidelines(agg) ==
    LET moods == agg.inferred_mood_tags
        typos == agg.inferred_typography_tags
        inferred_layout_preference ==
            IF "minimalist" \in moods \/ RLess(Rat(75, 100), agg.avg_whitespace)
               THEN "minimalist"
            ELSE IF "dense" \in moods \/ RLess(agg.avg_whitespace, Rat(25, 100))
               THEN "bold"
            ELSE IF "creative" \in moods \/ "dynamic" \in moods
                    \/ RLess(Rat(65, 10), agg.avg_entropy)
               THEN "modern"
            ELSE "classic"
        inferred_design_principles ==
            (IF RLess(Rat(85, 100), agg.avg_h_symmetry)
                    /\ RLess(Rat(85, 100), agg.avg_v_symmetry)
                    /\ RLess(Rat(9, 10), agg.avg_visual_balance)
                 THEN {"structured"} ELSE {})
            \cup (IF "creative" \in moods \/ "dynamic" \in moods
                    \/ RLess(Rat(6, 1), agg.avg_entropy)
                 THEN {"organic"} ELSE {})
            \cup (IF "bold" \in typos \/ RLess(agg.avg_whitespace, Rat(3, 10))
                 THEN {"bold"} ELSE {})
            \cup (IF "light" \in typos \/ RLess(Rat(7, 10), agg.avg_whitespace)
                 THEN {"subtle"} ELSE {})
            \cup (IF RLeq(Rat(8, 1), agg.avg_aesthetic_score)
                    /\ RLess(agg.avg_fractal_dimension, Rat(13, 10))
                 THEN {"clean"} ELSE {})
            \cup (IF RLess(Rat(17, 10), agg.avg_fractal_dimension)
                    \/ RLess(Rat(7, 1), agg.avg_entropy)
                 THEN {"complex"} ELSE {})
    IN  [layoutPreference |-> inferred_layout_preference,
         designPrinciples |-> ListOf(inferred_design_principles)]

\* an inference that tests the "bold" rule before the "minimalist" rule
LayoutInferBoldFirst(agg) ==
    LET moods == agg.inferred_mood_tags
        typos == agg.inferred_typography_tags
        inferred_layout_preference ==
            IF "dense" \in moods \/ RLess(agg.avg_whitespace, Rat(25, 100))
               THEN "bold"
            ELSE IF "minimalist" \in moods \/ RLess(Rat(75, 100), agg.avg_whitespace)
               THEN "minimalist"
            ELSE IF "creative" \in moods \/ "dynamic" \in moods
                    \/ RLess(Rat(65, 10), agg.avg_entropy)
               THEN "modern"
            ELSE "classic"
        inferred_design_principles ==
            (IF RLess(Rat(85, 100), agg.avg_h_symmetry)
                    /\ RLess(Rat(85, 100), agg.avg_v_symmetry)
                    /\ RLess(Rat(9, 10), agg.avg_visual_balance)
                 THEN {"structured"} ELSE {})
            \cup (IF "creative" \in moods \/ "dynamic" \in moods
                    \/ RLess(Rat(6, 1), agg.avg_entropy)
                 THEN {"organic"} ELSE {})
            \cup (IF "bold" \in typos \/ RLess(agg.avg_whitespace, Rat(3, 10))
                 THEN {"bold"} ELSE {})
            \cup (IF "light" \in typos \/ RLess(Rat(7, 10), agg.avg_whitespace)
                 THEN {"subtle"} ELSE {})
            \cup (IF RLeq(Rat(8, 1), agg.avg_aesthetic_score)
                    /\ RLess(agg.avg_fractal_dimension, Rat(13, 10))
                 THEN {"clean"} ELSE {})
            \cup (IF RLess(Rat(17, 10), agg.avg_fractal_dimension)
                    \/ RLess(Rat(7, 1), agg.avg_entropy)
                 THEN {"complex"} ELSE {})
    IN  [layoutPreference |-> inferred_layout_preference,
         designPrinciples |-> ListOf(inferred_design_principles)]

\* layout_generator.py 83-114: the guidelines synthesized from the aggregated features
LayoutInferGuidelines(agg) ==
    LET moods == agg.inferred_mood_tags
        typos == agg.inferred_typography_tags
        inferred_layout_preference ==
            IF "minimalist" \in moods \/ RLess(Rat(75, 100), agg.avg_whitespace)
               THEN "minimalist"
            ELSE IF "dense" \in moods \/ RLess(agg.avg_whitespace, Rat(25, 100))
               THEN "bold"
            ELSE IF "creative" \in moods \/ "dynamic" \in moods
                    \/ RLess(Rat(65, 10), agg.avg_entropy)
               THEN "modern"
            ELSE "classic"
        inferred_design_principles ==
            (IF RLess(Rat(85, 100), agg.avg_h_symmetry)
                    /\ RLess(Rat(85, 100), agg.avg_v_symmetry)
                    /\ RLess(Rat(9, 10), agg.avg_visual_balance)
                 THEN {"structured"} ELSE {})
            \cup (IF "creative" \in moods \/ "dynamic" \in moods
                    \/ RLess(Rat(6, 1), agg.avg_entropy)
                 THEN {"organic"} ELSE {})
            \cup (IF "bold" \in typos \/ RLess(agg.avg_whitespace, Rat(3, 10))
                 THEN {"bold"} ELSE {})
            \cup (IF "light" \in typos \/ RLess(Rat(7, 10), agg.avg_whitespace)
                 THEN {"subtle"} ELSE {})
            \cup (IF RLeq(Rat(8, 1), agg.avg_aesthetic_score)
                    /\ RLess(agg.avg_fractal_dimension, Rat(13, 10))
                 THEN {"clean"} ELSE {})
            \cup (IF RLess(Rat(17, 10), agg.avg_fractal_dimension)
                    \/ RLess(Rat(7, 1), agg.avg_entropy)
                 THEN {"complex"} ELSE {})
    IN  [layoutPreference |-> inferred_layout_preference,
         designPrinciples |-> ListOf(inferred_design_principles)]

\* js_component_suggester.py 64-97: the guidelines synthesized from the aggregated features
JsInferGuidelines(agg) ==
    LET moods == agg.inferred_mood_tags
        typos == agg.inferred_typography_tags
        inferred_layout_preference ==
            IF "minimalist" \in moods \/ RLess(Rat(75, 100), agg.avg_whitespace)
               THEN "minimalist"
            ELSE IF "dense" \in moods \/ RLess(agg.avg_whitespace, Rat(25, 100))
               THEN "bold"
            ELSE IF "creative" \in moods \/ "dynamic" \in moods
                    \/ RLess(Rat(65, 10), agg.avg_entropy)
               THEN "modern"
            ELSE "classic"
        inferred_design_principles ==
            (IF RLess(Rat(85, 100), agg.avg_h_symmetry)
                    /\ RLess(Rat(85, 100), agg.avg_v_symmetry)
                    /\ RLess(Rat(9, 10), agg.avg_visual_balance)
                 THEN {"structured"} ELSE {})
            \cup (IF "creative" \in moods \/ "dynamic" \in moods
                    \/ RLess(Rat(6, 1), agg.avg_entropy)
                 THEN {"organic"} ELSE {})
            \cup (IF "bold" \in typos \/ RLess(agg.avg_whitespace, Rat(3, 10))
                 THEN {"bold"} ELSE {})
            \cup (IF "light" \in typos \/ RLess(Rat(7, 10), agg.avg_whitespace)
                 THEN {"subtle"} ELSE {})
            \cup (IF RLeq(Rat(8, 1), agg.avg_aesthetic_score)
                    /\ RLess(agg.avg_fractal_dimension, Rat(13, 10))
                 THEN {"clean"} ELSE {})
            \cup (IF RLess(Rat(17, 10), agg.avg_fractal_dimension)
                    \/ RLess(Rat(7, 1), agg.avg_entropy)
                 THEN {"complex"} ELSE {})
    IN  [layoutPreference |-> inferred_layout_preference,
         designPrinciples |-> ListOf(inferred_design_principles)]

(***************************************************************************)
(* font_suggester.py                                                       *)
(***************************************************************************)
FONT_PAIRINGS ==
    <<
      [heading |-> "Roboto", body |-> "Open Sans",
       moods |-> {"modern", "professional", "calm", "balanced", "clean", "structured", "subtle"},
       styles |-> {"sans-serif", "light", "geometric", "clean"},
       complexity |-> Rat(1, 5), readability |-> Rat(9, 10)],
      [heading |-> "Playfair Display", body |-> "Lora",
       moods |-> {"elegant", "calm", "professional", "balanced", "subtle", "structured"},
       styles |-> {"serif", "light", "classic"},
       complexity |-> Rat(2, 5), readability |-> Rat(4, 5)],
      [heading |-> "Montserrat", body |-> "Lato",
       moods |-> {"vibrant", "modern", "playful", "energetic", "dynamic", "bold", "complex"},
       styles |-> {"sans-serif", "bold", "geometric", "display"},
       complexity |-> Rat(3, 5), readability |-> Rat(7, 10)],
      [heading |-> "Oswald", body |-> "Merriweather",
       moods |-> {"bold", "professional", "modern", "dense", "structured", "complex"},
       styles |-> {"sans-serif", "serif", "bold"},
       complexity |-> Rat(7, 10), readability |-> Rat(3, 4)],
      [heading |-> "Pacifico", body |-> "Quicksand",
       moods |-> {"playful", "creative", "vibrant", "dynamic", "organic", "expressive"},
       styles |-> {"script", "sans-serif", "expressive"},
       complexity |-> Rat(4, 5), readability |-> Rat(3, 5)],
      [heading |-> "Space Mono", body |-> "IBM Plex Sans",
       moods |-> {"techy", "modern", "professional", "dense", "structured", "complex"},
       styles |-> {"monospace", "sans-serif", "geometric"},
       complexity |-> Rat(7, 10), readability |-> Rat(4, 5)],
      [heading |-> "Merriweather", body |-> "Open Sans",
       moods |-> {"classic", "professional", "calm", "balanced", "subtle", "clean"},
       styles |-> {"serif", "sans-serif", "light"},
       complexity |-> Rat(3, 10), readability |-> Rat(9, 10)],
      [heading |-> "Lato", body |-> "Roboto",
       moods |-> {"modern", "professional", "vibrant", "balanced", "clean", "structured"},
       styles |-> {"sans-serif", "light"},
       complexity |-> Rat(1, 4), readability |-> Rat(17, 20)],
      [heading |-> "Rubik", body |-> "Noto Sans",
       moods |-> {"modern", "clean", "minimalist", "balanced", "structured", "subtle"},
       styles |-> {"sans-serif", "geometric"},
       complexity |-> Rat(3, 10), readability |-> Rat(22, 25)],
      [heading |-> "Source Code Pro", body |-> "Inter",
       moods |-> {"techy", "modern", "professional", "dense", "structured", "complex"},
       styles |-> {"monospace", "sans-serif"},
       complexity |-> Rat(13, 20), readability |-> Rat(41, 50)],
      [heading |-> "Dancing Script", body |-> "Josefin Sans",
       moods |-> {"elegant", "creative", "playful", "organic", "expressive"},
       styles |-> {"script", "sans-serif", "expressive"},
       complexity |-> Rat(9, 10), readability |-> Rat(11, 20)],
      [heading |-> "Bitter", body |-> "PT Sans",
       moods |-> {"classic", "professional", "balanced", "structured"},
       styles |-> {"serif", "sans-serif"},
       complexity |-> Rat(9, 20), readability |-> Rat(4, 5)],
      [heading |-> "Nunito Sans", body |-> "Fira Sans",
       moods |-> {"modern", "clean", "light", "minimalist", "subtle", "structured"},
       styles |-> {"sans-serif", "light"},
       complexity |-> Rat(1, 5), readability |-> Rat(23, 25)],
      [heading |-> "Anton", body |-> "Open Sans",
       moods |-> {"bold", "energetic", "vibrant", "dynamic", "complex"},
       styles |-> {"sans-serif", "bold", "display"},
       complexity |-> Rat(17, 20), readability |-> Rat(13, 20)],
      [heading |-> "Comfortaa", body |-> "Muli",
       moods |-> {"playful", "modern", "clean", "organic", "subtle"},
       styles |-> {"sans-serif", "geometric", "light"},
       complexity |-> Rat(7, 20), readability |-> Rat(4, 5)],
      [heading |-> "Fjalla One", body |-> "Roboto Condensed",
       moods |-> {"bold", "dense", "energetic", "structured", "complex"},
       styles |-> {"sans-serif", "bold"},
       complexity |-> Rat(3, 4), readability |-> Rat(7, 10)],
      [heading |-> "Poppins", body |-> "Raleway",
       moods |-> {"modern", "clean", "minimalist", "balanced", "structured"},
       styles |-> {"sans-serif", "geometric", "light"},
       complexity |-> Rat(3, 10), readability |-> Rat(9, 10)],
      [heading |-> "Lora", body |-> "Noto Serif",
       moods |-> {"elegant", "classic", "calm", "balanced", "subtle"},
       styles |-> {"serif", "classic"},
       complexity |-> Rat(2, 5), readability |-> Rat(17, 20)],
      [heading |-> "Bebas Neue", body |-> "Montserrat",
       moods |-> {"bold", "modern", "energetic", "dense", "complex"},
       styles |-> {"sans-serif", "display", "bold"},
       complexity |-> Rat(4, 5), readability |-> Rat(17, 25)],
      [heading |-> "Permanent Marker", body |-> "Indie Flower",
       moods |-> {"creative", "playful", "expressive", "organic"},
       styles |-> {"script", "display", "expressive"},
       complexity |-> Rat(19, 20), readability |-> Rat(1, 2)]
    >>

\* the design principles read from the active guidelines, normalised;
\* DesignPrinciplesAsWritten takes the entries without strip().lower()
DesignPrinciplesAsWritten(active) ==
    IF "designPrinciples" \in DOMAIN active
    THEN {active.designPrinciples[i] : i \in 1..Len(active.designPrinciples)}
    ELSE {}

DesignPrinciplesOf(active) ==
    IF "designPrinciples" \in DOMAIN active
    THEN {StripLower(active.designPrinciples[i]) : i \in 1..Len(active.designPrinciples)}
    ELSE {}

\* word in font_name.lower(), for the font names in use
NameHolds(font_name, word) ==
    \/ word = "display" /\ font_name = "Playfair Display"
    \/ word = "script" /\ font_name = "Dancing Script"

\* the "body" entry of calculate_golden_ratio_font_scale: round(base_size),
\* at least 1
calculate_golden_ratio_font_scale(base_size) ==
    [body |-> Max2(1, RoundDiv(base_size[1], base_size[2]))]

get_typographic_recommendations(heading_font, body_font, agg, design_principles) ==
    [line_height |->
         IF \/ RLess(Rat(6, 10), agg.avg_whitespace)
            \/ RLeq(Rat(8, 1), agg.avg_aesthetic_score)
            \/ "minimalist" \in design_principles
            \/ "clean" \in design_principles
         THEN "relaxed"
         ELSE IF \/ RLess(agg.avg_whitespace, Rat(4, 10))
                 \/ RLess(Rat(17, 10), agg.avg_fractal_dimension)
                 \/ RLess(Rat(65, 10), agg.avg_entropy)
                 \/ "dense" \in design_principles
                 \/ "complex" \in design_principles
         THEN "tight"
         ELSE "normal",
     letter_spacing |->
         IF \/ NameHolds(heading_font, "display")
            \/ "bold" \in design_principles
            \/ "expressive" \in design_principles
            \/ "vibrant" \in design_principles
         THEN "wide"
         ELSE IF \/ "light" \in design_principles
                 \/ "geometric" \in design_principles
                 \/ "minimalist" \in design_principles
                 \/ "clean" \in design_principles
         THEN "tight"
         ELSE "normal"]

\* current_matches of one catalogue pairing (lines 182-216).  The tag
\* counts and the fixed bonuses are multiples of 0.5 and are summed in
\* halves; the two complexity terms are added as fractions.
PairingScore(p, moods, styles, agg, brand_heading, brand_body) ==
    LET halves ==
              4 * Cardinality(moods \cap p.moods)
            + 3 * Cardinality(styles \cap p.styles)
            + (IF /\ "clean" \in styles
                  /\ "geometric" \in p.styles
                  /\ RLess(agg.avg_fractal_dimension, Rat(13, 10))
               THEN 4 ELSE 0)
            + (IF /\ "complex" \in styles
                  /\ "expressive" \in p.styles
                  /\ RLess(Rat(65, 10), agg.avg_entropy)
               THEN 4 ELSE 0)
            + (IF /\ "structured" \in styles
                  /\ RLess(Rat(7, 10), agg.avg_h_symmetry)
                  /\ RLess(Rat(7, 10), agg.avg_v_symmetry)
                  /\ RLess(Rat(8, 10), agg.avg_visual_balance)
               THEN 3 ELSE 0)
            + (IF /\ "organic" \in styles
                  /\ \/ RLess(agg.avg_h_symmetry, Rat(6, 10))
                     \/ RLess(agg.avg_v_symmetry, Rat(6, 10))
                  /\ "dynamic" \in moods
               THEN 3 ELSE 0)
            + (IF /\ RLeq(Rat(7, 1), agg.avg_aesthetic_score)
                  /\ ("professional" \in p.moods \/ "balanced" \in p.moods)
               THEN 2 ELSE 0)
            + (IF /\ RLess(agg.avg_whitespace, Rat(4, 10))
                  /\ RLess(Rat(8, 10), p.readability)
               THEN 2 ELSE 0)
            + (IF Truthy(brand_heading) /\ brand_heading = p.heading THEN 6 ELSE 0)
            + (IF Truthy(brand_body) /\ brand_body = p.body THEN 6 ELSE 0)
        f == agg.avg_fractal_dimension
        e == agg.avg_entropy
        c == p.complexity
        \* abs(avg_fractal_dimension - pairing_complexity * 2) * 0.5
        fractal_miss == Rat(Abs(f[1] * c[2] - 2 * c[1] * f[2]), 2 * f[2] * c[2])
        \* (1 - abs(avg_entropy - pairing_complexity * 8)) * 0.2
        entropy_fit == Rat(e[2] * c[2] - Abs(e[1] * c[2] - 8 * c[1] * e[2]), 5 * e[2] * c[2])
    IN  RAdd(RSub(Rat(halves, 2), fractal_miss), entropy_fit)

\* the loop over the catalogue (lines 177-231) from entry i on.  A score
\* equal to the running maximum, once a pairing is held, reaches line 224,
\* where next(...) yields a readability number and [5] subscripts it: the
\* call raises TypeError.
RECURSIVE BestPairing(_, _, _, _, _, _, _, _)
BestPairing(i, max_matches, best_match_pairing, moods, styles, agg, brand_heading, brand_body) ==
    IF i > Len(FONT_PAIRINGS)
    THEN [status |-> "ok", pairing |-> best_match_pairing, scored |-> i - 1]
    ELSE LET p == FONT_PAIRINGS[i]
             current_matches == PairingScore(p, moods, styles, agg, brand_heading, brand_body)
         IN  IF RLess(max_matches, current_matches)
             THEN BestPairing(i + 1, current_matches, <<p.heading, p.body>>,
                              moods, styles, agg, brand_heading, brand_body)
             ELSE IF REq(current_matches, max_matches) /\ best_match_pairing # <<>>
             THEN [status |-> "TypeError", pairing |-> best_match_pairing, scored |-> i]
             ELSE BestPairing(i + 1, max_matches, best_match_pairing,
                              moods, styles, agg, brand_heading, brand_body)

\* active_brand_guidelines of suggest_fonts (lines 54, 98-128)
FontActiveGuidelines(batch, guidelines) ==
    IF DOMAIN guidelines = {}
    THEN LET inferred == FontInferGuidelines(FontAggregate(batch))
         IN  Put(Put(guidelines, "layoutPreference", inferred.layoutPreference),
                 "designPrinciples", inferred.designPrinciples)
    ELSE guidelines

\* base_font_size_px (lines 247-255)
BaseFontSize(agg) ==
    LET base == RAdd(Rat(16, 1),
                     RAdd(RMul(agg.avg_whitespace, Rat(6, 1)),
                          RMul(agg.avg_aesthetic_score, Rat(4, 10))))
    IN  IF RLess(agg.avg_fractal_dimension, Rat(13, 10)) \/ RLess(agg.avg_entropy, Rat(3, 1))
        THEN RMul(base, Rat(105, 100))
        ELSE IF RLess(Rat(17, 10), agg.avg_fractal_dimension)
                \/ RLess(Rat(65, 10), agg.avg_entropy)
        THEN RMul(base, Rat(95, 100))
        ELSE base

\* lines 160-274: the fonts taken from the best catalogue pairing
ScoredSuggestion(batch, guidelines) ==
    LET agg == FontAggregate(batch)
        active == FontActiveGuidelines(batch, guidelines)
        principles == DesignPrinciplesOf(active)
        brand_heading == Get(active, "headingFont")
        brand_body == Get(active, "bodyFont")
        loop == BestPairing(1, Rat(-1, 1), <<>>,
                            agg.inferred_mood_tags \cup principles,
                            agg.inferred_typography_tags \cup principles,
                            agg, brand_heading, brand_body)
        heading == IF loop.pairing # <<>> /\ ~Truthy(brand_heading)
                   THEN loop.pairing[1] ELSE "Roboto"
        body == IF loop.pairing # <<>> /\ ~Truthy(brand_body)
                THEN loop.pairing[2] ELSE "Open Sans"
    IN  [status |-> loop.status,
         heading_font |-> IF loop.status = "ok" THEN heading ELSE NoneStr,
         body_font |-> IF loop.status = "ok" THEN body ELSE NoneStr,
         font_size_scale |-> calculate_golden_ratio_font_scale(BaseFontSize(agg)),
         typographic_recommendations |->
             get_typographic_recommendations(heading, body, agg, principles),
         scored |-> loop.scored,
         aggregated |-> agg,
         active_brand_guidelines |-> active,
         brand_guidelines |-> guidelines]

\* suggest_fonts without the early return of lines 141-158
SuggestFontsAlwaysScoring(batch, guidelines) ==
    ScoredSuggestion(batch, guidelines)

\* suggest_fonts(image_analysis_results, brand_guidelines): what it returns
\* (status "ok") or the exception it raises, the number of catalogue entries
\* it scored, and the caller's guideline dict as the call leaves it (the
\* handler works on a copy)
suggest_fonts(batch, guidelines) ==
    LET agg == FontAggregate(batch)
        active == FontActiveGuidelines(batch, guidelines)
        principles == DesignPrinciplesOf(active)
        brand_heading == Get(active, "headingFont")
        brand_body == Get(active, "bodyFont")
    IN  IF Truthy(brand_heading) /\ Truthy(brand_body)
        THEN [status |-> "ok",
              heading_font |-> brand_heading,
              body_font |-> brand_body,
              font_size_scale |-> calculate_golden_ratio_font_scale(Rat(16, 1)),
              typographic_recommendations |->
                  get_typographic_recommendations(brand_heading, brand_body, agg, principles),
              scored |-> 0,
              aggregated |-> agg,
         active_brand_guidelines |-> active,
              brand_guidelines |-> guidelines]
        ELSE ScoredSuggestion(batch, guidelines)

(***************************************************************************)
(* js_component_suggester.py                                               *)
(***************************************************************************)
\* active_brand_guidelines of suggest_js_components (lines 64-97);
\* JsActiveWithoutPrinciples leaves out the inferred designPrinciples
JsActiveWithoutPrinciples(batch, guidelines) ==
    IF DOMAIN guidelines = {}
    THEN Put(EmptyDict, "layoutPreference", JsInferGuidelines(JsAggregate(batch)).layoutPreference)
    ELSE guidelines

JsActiveGuidelines(batch, guidelines) ==
    IF DOMAIN guidelines = {}
    THEN LET inferred == JsInferGuidelines(JsAggregate(batch))
         IN  Put(Put(EmptyDict, "layoutPreference", inferred.layoutPreference),
                 "designPrinciples", inferred.designPrinciples)
    ELSE guidelines

\* suggest_js_components(image_analysis_results, layout_style, brand_guidelines):
\* the "component" entries of the suggestions, in the order they are appended
suggest_js_components(batch, style, guidelines) ==
    LET agg == JsAggregate(batch)
        active == JsActiveGuidelines(batch, guidelines)
        principles == DesignPrinciplesOf(active)
        moods == agg.inferred_mood_tags
        When(cond, component) == IF cond THEN <<component>> ELSE <<>>
        minimal ==
            <<"Modal/Dialog">>
            \o When(RLess(Rat(8, 10), agg.avg_h_symmetry) /\ RLess(Rat(8, 10), agg.avg_v_symmetry),
                    "Accordion/Collapse")
            \o When(RLeq(Rat(8, 1), agg.avg_aesthetic_score)
                        /\ RLess(agg.avg_fractal_dimension, Rat(13, 10)),
                    "Smooth Scroll/Scroll-to-Top Button")
        dense ==
            <<"Tabbed Interface">>
            \o When(RLess(Rat(17, 10), agg.avg_fractal_dimension) \/ "complex" \in principles,
                    "Interactive Chart/Graph")
            \o When(RLess(Rat(6, 1), agg.avg_entropy) \/ "complex" \in principles,
                    "Advanced Search with Autocomplete/Filtering")
        creative ==
            <<"Image Carousel/Slider">>
            \o When(\/ RLess(agg.avg_h_symmetry, Rat(6, 10))
                    \/ RLess(agg.avg_v_symmetry, Rat(6, 10))
                    \/ "organic" \in principles,
                    "Interactive Background/Canvas Animation")
            \o When("playful" \in moods \/ "expressive" \in principles,
                    "Lottie Animation (JSON-based)")
            \o When(RLeq(Rat(8, 1), agg.avg_aesthetic_score) /\ agg.avg_golden_ratio_match,
                    "Interactive Grid with Hover Effects")
        by_style == IF style = "minimal" THEN minimal
                    ELSE IF style = "dense" THEN dense
                    ELSE IF style = "creative" THEN creative
                    ELSE <<>>
        cross ==
            When(RLeq(Rat(8, 1), agg.avg_aesthetic_score) /\ "professional" \in moods,
                 "Tooltip/Popover System")
            \o When(RLeq(Rat(9, 10), agg.avg_visual_balance) /\ "structured" \in principles,
                    "Sticky Navigation with Scroll-based Transformations")
            \o When("vibrant" \in moods \/ "energetic" \in moods \/ "bold" \in principles,
                    "Animated Call-to-Action (CTA) Button")
            \o When(RLess(agg.avg_fractal_dimension, Rat(13, 10)) /\ "clean" \in principles,
                    "Minimalist Image Lightbox")
            \o When(RLess(Rat(7, 1), agg.avg_entropy) /\ "complex" \in principles,
                    "Infinite Scroll/Load More Button")
    IN  [status |-> "ok",
         suggestions |-> by_style \o cross,
         layout_style |-> style,
         aggregated |-> agg,
         active_brand_guidelines |-> active,
         brand_guidelines |-> guidelines]

(***************************************************************************)
(* layout_generator.py                                                     *)
(***************************************************************************)
\* active guidelines that fill in a missing layoutPreference by inference
LayoutActiveGuidelinesFillGaps(batch, guidelines) ==
    IF "layoutPreference" \notin DOMAIN guidelines
    THEN LET inferred == LayoutInferGuidelines(LayoutAggregate(batch))
         IN  Put(Put(guidelines, "layoutPreference", inferred.layoutPreference),
                 "designPrinciples", inferred.designPrinciples)
    ELSE guidelines

\* active_brand_guidelines of generate_layout (lines 81-114): a copy of a
\* non-empty record, or a new dict that receives the two inferred keys
LayoutActiveGuidelines(batch, guidelines) ==
    IF DOMAIN guidelines = {}
    THEN LET inferred == LayoutInferGuidelines(LayoutAggregate(batch))
         IN  Put(Put(EmptyDict, "layoutPreference", inferred.layoutPreference),
                 "designPrinciples", inferred.designPrinciples)
    ELSE guidelines

\* the layout style rendered (lines 123-133); ResolveLayoutStyleWhenAsked is
\* the mapping applied only when the caller asked for no style of its own
ResolveLayoutStyleWhenAsked(active, style) ==
    IF "layoutPreference" \notin DOMAIN active \/ style # "minimal" THEN style
    ELSE IF active.layoutPreference = "minimalist" THEN "minimal"
    ELSE IF active.layoutPreference = "bold" THEN "dense"
    ELSE IF active.layoutPreference = "classic" THEN "minimal"
    ELSE IF active.layoutPreference = "modern" THEN "creative"
    ELSE style

ResolveLayoutStyle(active, style) ==
    IF "layoutPreference" \notin DOMAIN active THEN style
    ELSE IF active.layoutPreference = "minimalist" THEN "minimal"
    ELSE IF active.layoutPreference = "bold" THEN "dense"
    ELSE IF active.layoutPreference = "classic" THEN "minimal"
    ELSE IF active.layoutPreference = "modern" THEN "creative"
    ELSE style

\* the utility classes (lines 153-243); a padding class is named by the
\* spacing step it is computed from
StyleClasses(agg, design_principles) ==
    LET moods == agg.inferred_mood_tags
        c0 == [header_shadow_class |-> "shadow-md",
               button_rounded_class |-> "rounded-full",
               section_padding_class |-> "golden_spacing_lg",
               card_shadow_class |-> "shadow-md",
               card_rounded_class |-> "rounded-lg",
               transition_class |-> "",
               bg_pattern_class |-> "",
               border_style_class |-> "border-solid",
               text_leading_class |-> "leading-normal",
               text_tracking_class |-> "tracking-normal"]
        c1 == IF "professional" \in moods \/ RLeq(Rat(8, 1), agg.avg_aesthetic_score)
              THEN [c0 EXCEPT !.header_shadow_class = "shadow-xl",
                              !.card_shadow_class = "shadow-lg",
                              !.button_rounded_class = "rounded-md",
                              !.transition_class = "transition-all duration-500 ease-in-out",
                              !.bg_pattern_class =
                                  IF RLess(agg.avg_fractal_dimension, Rat(13, 10))
                                  THEN "bg-white" ELSE @,
                              !.border_style_class = "border-gray-200 border",
                              !.text_leading_class = "leading-relaxed",
                              !.text_tracking_class = "tracking-tight"]
              ELSE c0
        c2 == IF "playful" \in moods \/ "creative" \in moods
              THEN [c1 EXCEPT !.button_rounded_class = "rounded-full",
                              !.card_rounded_class = "rounded-3xl",
                              !.transition_class = "transition-all duration-300 ease-in-out",
                              !.bg_pattern_class =
                                  IF RLess(Rat(6, 1), agg.avg_entropy)
                                  THEN "bg-repeat bg-center bg-gray-50 bg-opacity-20" ELSE @,
                              !.border_style_class = "border-dashed border-2 border-primary",
                              !.text_leading_class = "leading-loose",
                              !.text_tracking_class = "tracking-wide"]
              ELSE c1
        c3 == IF "minimalist" \in moods \/ RLess(Rat(7, 10), agg.avg_whitespace)
              THEN [c2 EXCEPT !.section_padding_class = "golden_spacing_xl",
                              !.card_shadow_class = "shadow-sm",
                              !.card_rounded_class = "rounded-xl",
                              !.bg_pattern_class = "bg-white",
                              !.border_style_class = "border-none",
                              !.text_leading_class = "leading-relaxed",
                              !.text_tracking_class = "tracking-tight"]
              ELSE c2
        c4 == IF "dense" \in moods \/ RLess(agg.avg_whitespace, Rat(3, 10))
              THEN [c3 EXCEPT !.section_padding_class = "golden_spacing_sm",
                              !.card_shadow_class = "shadow-none",
                              !.bg_pattern_class =
                                  IF RLess(Rat(7, 1), agg.avg_entropy)
                                  THEN "bg-gray-200" ELSE @,
                              !.border_style_class = "border-solid border-gray-400 border",
                              !.text_leading_class = "leading-tight",
                              !.text_tracking_class = "tracking-normal"]
              ELSE c3
        c5 == IF "structured" \in design_principles
              THEN [c4 EXCEPT !.button_rounded_class = "rounded-md",
                              !.card_rounded_class = "rounded-lg",
                              !.header_shadow_class = "shadow-lg",
                              !.border_style_class = "border-solid border-gray-300 border-2",
                              !.text_leading_class = "leading-normal",
                              !.text_tracking_class = "tracking-tight"]
              ELSE c4
        c6 == IF "organic" \in design_principles
              THEN [c5 EXCEPT !.button_rounded_class = "rounded-full",
                              !.card_rounded_class = "rounded-3xl",
                              !.bg_pattern_class = "bg-repeat bg-center bg-gray-100 bg-opacity-50",
                              !.border_style_class = "border-dotted border-primary border-2",
                              !.text_leading_class = "leading-loose",
                              !.text_tracking_class = "tracking-wide"]
              ELSE c5
        c7 == IF "bold" \in design_principles
              THEN [c6 EXCEPT !.header_shadow_class = "shadow-2xl",
                              !.card_shadow_class = "shadow-xl",
                              !.section_padding_class = "golden_spacing_sm",
                              !.border_style_class = "border-solid border-accent border-4",
                              !.text_leading_class = "leading-tight",
                              !.text_tracking_class = "tracking-wider"]
              ELSE c6
        c8 == IF "subtle" \in design_principles
              THEN [c7 EXCEPT !.header_shadow_class = "shadow-sm",
                              !.card_shadow_class = "shadow-sm",
                              !.transition_class = "transition-all duration-700 ease-in-out",
                              !.bg_pattern_class = "bg-white",
                              !.border_style_class = "border-none",
                              !.text_leading_class = "leading-relaxed",
                              !.text_tracking_class = "tracking-normal"]
              ELSE c7
        c9 == IF "clean" \in design_principles
              THEN [c8 EXCEPT !.card_shadow_class = "shadow-none",
                              !.card_rounded_class = "rounded-md",
                              !.bg_pattern_class = "bg-white",
                              !.border_style_class = "border-gray-100 border",
                              !.text_leading_class = "leading-relaxed",
                              !.text_tracking_class = "tracking-tight"]
              ELSE c8
    IN  IF "complex" \in design_principles
        THEN [c9 EXCEPT !.card_shadow_class = "shadow-xl",
                        !.button_rounded_class = "rounded-lg",
                        !.bg_pattern_class = "bg-repeat bg-center bg-gray-200",
                        !.border_style_class = "border-solid border-gray-500 border-2",
                        !.text_leading_class = "leading-tight",
                        !.text_tracking_class = "tracking-normal"]
        ELSE c9

\* generate_layout(image_analysis_results, brand_guidelines, layout_style, ...):
\* the layout variant rendered into the HTML, its utility classes and the
\* active guidelines; status "ok" when the (html, active guidelines) pair is
\* returned and the file written, "IndexError" when the creative section
\* reads image_analysis_results[0] of an empty batch (line 419).  The
\* caller's guideline dict is not the dict the handler writes to.
generate_layout(batch, guidelines, style) ==
    LET agg == LayoutAggregate(batch)
        active == LayoutActiveGuidelines(batch, guidelines)
        design_principles == DesignPrinciplesOf(active)
        rendered == ResolveLayoutStyle(active, style)
        raised == rendered = "creative" /\ batch = <<>>
    IN  [status |-> IF raised THEN "IndexError" ELSE "ok",
         layout_style |-> rendered,
         classes |-> StyleClasses(agg, design_principles),
         aggregated |-> agg,
         active_brand_guidelines |-> active,
         brand_guidelines |-> guidelines]

(***************************************************************************)
(* One generation request: a batch of analysis records, the brand          *)
(* guidelines and the layout style the caller selected.  The suggesters   *)
(* are called on them in the order of app.py 112-153; an exception ends    *)
(* the request.                                                            *)
(***************************************************************************)
NotCalled == <<>>

Init ==
    /\ image_analysis_results \in Batches
    /\ brand_guidelines \in BrandGuidelines
    /\ layout_style \in LayoutStyles
    /\ font_suggestions = NotCalled
    /\ js_component_suggestions = NotCalled
    /\ layout_result = NotCalled
    /\ ImageIdle
    /\ PaletteIdle
    /\ ContrastIdle
    /\ AccessibleIdle
    /\ HarmonyIdle
    /\ ParserIdle

SuggestFonts ==
    /\ font_suggestions = NotCalled
    /\ font_suggestions' = suggest_fonts(image_analysis_results, brand_guidelines)
    /\ brand_guidelines' = font_suggestions'.brand_guidelines
    /\ UNCHANGED <<image_analysis_results, layout_style, js_component_suggestions, layout_result>>

SuggestJsComponents ==
    /\ font_suggestions # NotCalled
    /\ font_suggestions.status = "ok"
    /\ js_component_suggestions = NotCalled
    /\ js_component_suggestions' =
           suggest_js_components(image_analysis_results, layout_style, brand_guidelines)
    /\ brand_guidelines' = js_component_suggestions'.brand_guidelines
    /\ UNCHANGED <<image_analysis_results, layout_style, font_suggestions, layout_result>>

GenerateLayout ==
    /\ js_component_suggestions # NotCalled
    /\ layout_result = NotCalled
    /\ layout_result' = generate_layout(image_analysis_results, brand_guidelines, layout_style)
    /\ brand_guidelines' = layout_result'.brand_guidelines
    /\ UNCHANGED <<image_analysis_results, layout_style, font_suggestions,
                   js_component_suggestions>>

Next ==
    \/ SuggestFonts /\ UNCHANGED <<imgVars, palVars, conVars, accVars, harVars, parVars>>
    \/ SuggestJsComponents /\ UNCHANGED <<imgVars, palVars, conVars, accVars, harVars, parVars>>
    \/ GenerateLayout /\ UNCHANGED <<imgVars, palVars, conVars, accVars, harVars, parVars>>

Spec == Init /\ [][Next]_allVars

(***************************************************************************)
(* palette_extractor.py: luminance and contrast                             *)
(***************************************************************************)
HexDigits ==
    <<"0", "1", "2", "3", "4", "5", "6", "7", "8", "9", "a", "b", "c", "d", "e", "f">>

\* f"{int(x):02x}"
HexByte(x) == HexDigits[(x \div 16) + 1] \o HexDigits[(x % 16) + 1]

rgb_to_hex(rgb_color) ==
    "#" \o HexByte(rgb_color[1]) \o HexByte(rgb_color[2]) \o HexByte(rgb_color[3])

\* the gamma correction of get_luminance for the channel values 0..255, in
\* units of 1/10000: x / 12.92 if x <= 0.03928 else ((x + 0.055) / 1.055) ** 2.4
\* with x = channel / 255, rounded to four decimals
GammaE4 ==
    <<
          0,     3,     6,     9,    12,    15,    18,    21,    24,    27,    30,    33,    37,    40,    44,    48,
         52,    56,    60,    65,    70,    75,    80,    86,    91,    97,   103,   110,   116,   123,   130,   137,
        144,   152,   160,   168,   176,   185,   194,   203,   212,   222,   232,   242,   252,   262,   273,   284,
        296,   307,   319,   331,   343,   356,   369,   382,   395,   409,   423,   437,   452,   467,   482,   497,
        513,   529,   545,   561,   578,   595,   612,   630,   648,   666,   685,   704,   723,   742,   762,   782,
        802,   823,   844,   865,   887,   908,   931,   953,   976,   999,  1022,  1046,  1070,  1095,  1119,  1144,
       1170,  1195,  1221,  1248,  1274,  1301,  1329,  1356,  1384,  1413,  1441,  1470,  1500,  1529,  1559,  1590,
       1620,  1651,  1683,  1714,  1746,  1779,  1812,  1845,  1878,  1912,  1946,  1981,  2016,  2051,  2086,  2122,
       2159,  2195,  2232,  2270,  2307,  2346,  2384,  2423,  2462,  2502,  2542,  2582,  2623,  2664,  2705,  2747,
       2789,  2831,  2874,  2918,  2961,  3005,  3050,  3095,  3140,  3185,  3231,  3278,  3325,  3372,  3419,  3467,
       3515,  3564,  3613,  3663,  3712,  3763,  3813,  3864,  3916,  3968,  4020,  4072,  4125,  4179,  4233,  4287,
       4342,  4397,  4452,  4508,  4564,  4621,  4678,  4735,  4793,  4851,  4910,  4969,  5029,  5089,  5149,  5210,
       5271,  5333,  5395,  5457,  5520,  5583,  5647,  5711,  5776,  5841,  5906,  5972,  6038,  6105,  6172,  6240,
       6308,  6376,  6445,  6514,  6584,  6654,  6724,  6795,  6867,  6939,  7011,  7084,  7157,  7231,  7305,  7379,
       7454,  7529,  7605,  7682,  7758,  7835,  7913,  7991,  8070,  8148,  8228,  8308,  8388,  8469,  8550,  8632,
       8714,  8796,  8879,  8963,  9047,  9131,  9216,  9301,  9387,  9473,  9560,  9647,  9734,  9823,  9911, 10000
    >>

RDiv(x, y) == RMul(x, <<y[2], y[1]>>)

get_luminance(rgb) ==
    LET R == GammaE4[rgb[1] + 1]
        G == GammaE4[rgb[2] + 1]
        B == GammaE4[rgb[3] + 1]
    IN  Rat(2126 * R + 7152 * G + 722 * B, 100000000)

\* the ratio computed without putting the lighter colour first
GetContrastRatioNoSwap(c1, c2) ==
    RDiv(RAdd(get_luminance(c1), Rat(5, 100)), RAdd(get_luminance(c2), Rat(5, 100)))

get_contrast_ratio(c1, c2) ==
    LET L1 == get_luminance(c1)
        L2 == get_luminance(c2)
        lighter == IF RLess(L1, L2) THEN L2 ELSE L1
        darker  == IF RLess(L1, L2) THEN L1 ELSE L2
    IN  RDiv(RAdd(lighter, Rat(5, 100)), RAdd(darker, Rat(5, 100)))

check_wcag_compliance(ratio) ==
    [AA_normal_text  |-> RLeq(Rat(45, 10), ratio),
     AA_large_text   |-> RLeq(Rat(3, 1), ratio),
     AAA_normal_text |-> RLeq(Rat(7, 1), ratio),
     AAA_large_text  |-> RLeq(Rat(45, 10), ratio)]

(***************************************************************************)
(* The contrast of two colours as a state machine: two colours are given,  *)
(* get_contrast_ratio is called on them in both orders and on the first    *)
(* colour with itself.                                                     *)
(***************************************************************************)
ContrastColors ==
    {<<0, 0, 0>>, <<255, 255, 255>>, <<1, 1, 1>>, <<10, 10, 10>>, <<11, 11, 11>>,
     <<118, 118, 118>>, <<119, 119, 119>>, <<187, 187, 187>>, <<188, 188, 188>>,
     <<254, 254, 254>>, <<255, 0, 0>>, <<0, 255, 0>>, <<0, 0, 255>>,
     <<255, 255, 0>>, <<0, 0, 30>>, <<90, 120, 100>>, <<255, 200, 0>>}

NotComputed == <<>>

InitContrast ==
    /\ rgb1 \in ContrastColors
    /\ rgb2 \in ContrastColors
    /\ contrast_ratio = NotComputed
    /\ ImageIdle
    /\ RequestIdle
    /\ PaletteIdle
    /\ AccessibleIdle
    /\ HarmonyIdle
    /\ ParserIdle

GetContrastRatio ==
    /\ contrast_ratio = NotComputed
    /\ contrast_ratio' = [forward  |-> get_contrast_ratio(rgb1, rgb2),
                          backward |-> get_contrast_ratio(rgb2, rgb1),
                          self     |-> get_contrast_ratio(rgb1, rgb1)]
    /\ UNCHANGED <<rgb1, rgb2>>
    /\ UNCHANGED <<imgVars, vars, palVars, accVars, harVars, parVars>>

NextContrast == GetContrastRatio

SpecContrast == InitContrast /\ [][NextContrast]_allVars

(***************************************************************************)
(* palette_extractor.py: hue, lightness and saturation (colorsys)          *)
(***************************************************************************)
RMax(x, y) == IF RLess(x, y) THEN y ELSE x

RMin(x, y) == IF RLess(y, x) THEN y ELSE x

\* x % 1.0
RMod1(x) == Rat(x[1] % x[2], x[2])

\* int(x): truncation towards zero
TruncInt(x) == IF x[1] < 0 THEN -((-x[1]) \div x[2]) ELSE x[1] \div x[2]

\* colorsys.rgb_to_hls on channels in [0, 1]: <<h, l, s>>
rgb_to_hls(r, g, b) ==
    LET maxc   == RMax(r, RMax(g, b))
        minc   == RMin(r, RMin(g, b))
        sumc   == RAdd(maxc, minc)
        rangec == RSub(maxc, minc)
        l      == RDivInt(sumc, 2)
        s      == IF RLeq(l, Rat(1, 2)) THEN RDiv(rangec, sumc)
                  ELSE RDiv(rangec, RSub(RSub(Rat(2, 1), maxc), minc))
        rc     == RDiv(RSub(maxc, r), rangec)
        gc     == RDiv(RSub(maxc, g), rangec)
        bc     == RDiv(RSub(maxc, b), rangec)
        h      == IF r = maxc THEN RSub(bc, gc)
                  ELSE IF g = maxc THEN RAdd(Rat(2, 1), RSub(rc, bc))
                  ELSE RAdd(Rat(4, 1), RSub(gc, rc))
    IN  IF minc = maxc THEN <<Rat(0, 1), l, Rat(0, 1)>>
        ELSE <<RMod1(RDivInt(h, 6)), l, s>>

\* colorsys._v
HlsValue(m1, m2, hue) ==
    LET hu == RMod1(hue)
    IN  IF RLess(hu, Rat(1, 6)) THEN RAdd(m1, RMul(RMul(RSub(m2, m1), hu), Rat(6, 1)))
        ELSE IF RLess(hu, Rat(1, 2)) THEN m2
        ELSE IF RLess(hu, Rat(2, 3))
             THEN RAdd(m1, RMul(RMul(RSub(m2, m1), RSub(Rat(2, 3), hu)), Rat(6, 1)))
        ELSE m1

\* colorsys.hls_to_rgb: channels in [0, 1]
hls_to_rgb(h, l, s) ==
    LET m2 == IF RLeq(l, Rat(1, 2)) THEN RMul(l, RAdd(Rat(1, 1), s))
              ELSE RSub(RAdd(l, s), RMul(l, s))
        m1 == RSub(RMul(Rat(2, 1), l), m2)
    IN  IF s = Rat(0, 1) THEN <<l, l, l>>
        ELSE <<HlsValue(m1, m2, RAdd(h, Rat(1, 3))),
               HlsValue(m1, m2, h),
               HlsValue(m1, m2, RSub(h, Rat(1, 3)))>>

\* colorsys.rgb_to_hls(rgb[0]/255, rgb[1]/255, rgb[2]/255)
HlsOfRgb(rgb) == rgb_to_hls(Rat(rgb[1], 255), Rat(rgb[2], 255), Rat(rgb[3], 255))

\* tuple(int(x * 255) for x in colorsys.hls_to_rgb(h, l, s))
RgbOfHls(h, l, s) ==
    LET norm == hls_to_rgb(h, l, s)
    IN  [k \in 1..3 |-> TruncInt(RMul(norm[k], Rat(255, 1)))]

(***************************************************************************)
(* palette_extractor.py: suggest_accessible_color                          *)
(***************************************************************************)
max_attempts == 20

step == Rat(5, 100)

\* max(0.0, min(1.0, new_lightness)); KeepLightness is the adjustment without the clamp
KeepLightness(moved) == moved

ClampLightness(moved) == RMax(Rat(0, 1), RMin(Rat(1, 1), moved))

\* one adjustment of the loop body: up when the foreground is the darker colour, down otherwise
NewLightness(fg_rgb, fg_lightness, bg_rgb) ==
    ClampLightness(IF RLess(get_luminance(fg_rgb), get_luminance(bg_rgb))
                   THEN RAdd(fg_lightness, step)
                   ELSE RSub(fg_lightness, step))

\* the test that ends the loop early
MeetsTarget(fg_rgb, bg_rgb, target) == RLeq(target, get_contrast_ratio(fg_rgb, bg_rgb))

\* the loop of suggest_accessible_color with attempts iterations left
RECURSIVE AdjustLightness(_, _, _, _, _, _, _)
AdjustLightness(attempts, fg_rgb, hue, fg_lightness, saturation, bg_rgb, target) ==
    IF attempts = 0 THEN fg_rgb
    ELSE IF MeetsTarget(fg_rgb, bg_rgb, target) THEN fg_rgb
    ELSE LET new_lightness == NewLightness(fg_rgb, fg_lightness, bg_rgb)
         IN  AdjustLightness(attempts - 1, RgbOfHls(hue, new_lightness, saturation),
                             hue, new_lightness, saturation, bg_rgb, target)

suggest_accessible_color(fg_rgb, bg_rgb, target) ==
    LET original_hls == HlsOfRgb(fg_rgb)
    IN  AdjustLightness(max_attempts, fg_rgb, original_hls[1], original_hls[2],
                        original_hls[3], bg_rgb, target)

(***************************************************************************)
(* suggest_accessible_color, one loop iteration per step                   *)
(***************************************************************************)
AccessColors ==
    {<<0, 0, 0>>, <<255, 255, 255>>, <<90, 120, 100>>, <<110, 140, 120>>,
     <<255, 0, 0>>, <<0, 0, 255>>, <<119, 119, 119>>, <<255, 255, 0>>}

\* 1 is met by every pair, 22 by none
TargetContrasts == {Rat(1, 1), Rat(3, 1), Rat(9, 2), Rat(7, 1), Rat(22, 1)}

InitAccessible ==
    /\ original_rgb \in AccessColors
    /\ background_rgb \in AccessColors
    /\ target_contrast \in TargetContrasts
    /\ current_rgb = original_rgb
    /\ lightness = HlsOfRgb(original_rgb)[2]
    /\ attempt = 0
    /\ spc = "looping"
    /\ ImageIdle
    /\ RequestIdle
    /\ PaletteIdle
    /\ ContrastIdle
    /\ HarmonyIdle
    /\ ParserIdle

\* one pass through the loop body when the contrast is still below the target
AdjustStep ==
    /\ spc = "looping"
    /\ attempt < max_attempts
    /\ ~MeetsTarget(current_rgb, background_rgb, target_contrast)
    /\ lightness' = NewLightness(current_rgb, lightness, background_rgb)
    /\ current_rgb' = RgbOfHls(HlsOfRgb(original_rgb)[1], lightness', HlsOfRgb(original_rgb)[3])
    /\ attempt' = attempt + 1
    /\ UNCHANGED <<original_rgb, background_rgb, target_contrast, spc>>
    /\ UNCHANGED <<imgVars, vars, palVars, conVars, harVars, parVars>>

\* the return inside the loop, or the one after max_attempts passes
ReturnColor ==
    /\ spc = "looping"
    /\ attempt = max_attempts \/ MeetsTarget(current_rgb, background_rgb, target_contrast)
    /\ spc' = "returned"
    /\ UNCHANGED <<original_rgb, background_rgb, target_contrast, current_rgb, lightness, attempt>>
    /\ UNCHANGED <<imgVars, vars, palVars, conVars, harVars, parVars>>

NextAccessible == AdjustStep \/ ReturnColor

SpecAccessible == InitAccessible /\ [][NextAccessible]_allVars

(***************************************************************************)
(* palette_extractor.py: calculate_color_harmony_score                     *)
(***************************************************************************)
\* list.sort() of hues
RECURSIVE InsertHue(_, _)
InsertHue(sorted, h) ==
    IF sorted = <<>> THEN <<h>>
    ELSE IF RLeq(h, Head(sorted)) THEN <<h>> \o sorted
    ELSE <<Head(sorted)>> \o InsertHue(Tail(sorted), h)

RECURSIVE SortHues(_)
SortHues(hues) ==
    IF hues = <<>> THEN <<>> ELSE InsertHue(SortHues(Tail(hues)), Head(hues))

\* min(abs(h1 - h2), 360 - abs(h1 - h2))
AngularDiff(h1, h2) ==
    LET d == RAbs(RSub(h1, h2)) IN RMin(d, RSub(Rat(360, 1), d))

\* abs(diff - centre) < 15; NearWithin10 is the test with a tolerance of 10
NearWithin10(diff, centre) == RLess(RAbs(RSub(diff, Rat(centre, 1))), Rat(10, 1))

Near(diff, centre) == RLess(RAbs(RSub(diff, Rat(centre, 1))), Rat(15, 1))

\* the indices i for which some later hue is opposite
OppositePairs(hues) ==
    {i \in 1..Len(hues) :
         \E j \in (i + 1)..Len(hues) : Near(AngularDiff(hues[i], hues[j]), 180)}

\* the first j > i whose hue is opposite to hues[i]
FirstOpposite(hues, i) ==
    CHOOSE j \in (i + 1)..Len(hues) :
        /\ Near(AngularDiff(hues[i], hues[j]), 180)
        /\ \A k \in (i + 1)..(j - 1) : ~Near(AngularDiff(hues[i], hues[k]), 180)

\* round(hue)
RoundHue(h) == RoundDiv(h[1], h[2])

\* the explanations of the complementary pairs from index i on
RECURSIVE PairExplanations(_, _)
PairExplanations(hues, i) ==
    IF i > Len(hues) THEN <<>>
    ELSE (IF i \in OppositePairs(hues)
          THEN <<"Contains a complementary pair (hues " \o ToString(RoundHue(hues[i]))
                     \o "° and " \o ToString(RoundHue(hues[FirstOpposite(hues, i)]))
                     \o "°).">>
          ELSE <<>>) \o PairExplanations(hues, i + 1)

\* the four rules on the sorted hues of two or more colours: the
\* harmony_score in halves and the explanation, the list of the parts that
\* the code joins with ". "
HarmonyRules(hues) ==
    LET n == Len(hues)
        spread == RSub(hues[n], hues[1])
        monochromatic ==
            \/ RLess(spread, Rat(15, 1))
            \/ RLess(RSub(Rat(360, 1), spread), Rat(15, 1))
        is_analogous ==
            \A i \in 1..n : RLeq(AngularDiff(hues[i], hues[(i % n) + 1]), Rat(60, 1))
        complementary == n = 2 /\ 1 \in OppositePairs(hues)
        pairs == IF n > 2 THEN OppositePairs(hues) ELSE {}
        triadic ==
            n = 3 /\ \A i \in 1..3 : Near(AngularDiff(hues[i], hues[(i % 3) + 1]), 120)
    IN  [halves |-> (IF monochromatic THEN 4 ELSE 0)
                      + (IF is_analogous THEN 6 ELSE 0)
                      + (IF complementary THEN 8 ELSE 0)
                      + 3 * Cardinality(pairs)
                      + (IF triadic THEN 10 ELSE 0),
         explanation |->
             (IF monochromatic THEN <<"Monochromatic (hues are very close).">> ELSE <<>>)
                 \o (IF is_analogous
                     THEN <<"Analogous (hues are close on the color wheel).">> ELSE <<>>)
                 \o (IF complementary
                     THEN <<"Complementary (two main hues are opposite).">> ELSE <<>>)
                 \o (IF n > 2 THEN PairExplanations(hues, 1) ELSE <<>>)
                 \o (IF triadic
                     THEN <<"Triadic (three main hues are equally spaced).">> ELSE <<>>)]

\* the final score and the explanation for the outcome of the rules;
\* HarmonyResultNoBase leaves out the base score given when no rule fired
HarmonyResultNoBase(rules) ==
    LET final_score == Max2(0, Min2(20, rules.halves))
    IN  IF rules.explanation = <<>>
        THEN [score |-> Rat(final_score, 2),
              explanation |->
                  <<"No specific harmony pattern detected, but colors are present.">>]
        ELSE [score |-> Rat(final_score, 2), explanation |-> rules.explanation]

HarmonyResult(rules) ==
    LET final_score == Max2(0, Min2(20, rules.halves))
    IN  IF rules.explanation = <<>>
        THEN [score |-> Rat(Max2(final_score, 6), 2),
              explanation |->
                  <<"No specific harmony pattern detected, but colors are present.">>]
        ELSE [score |-> Rat(final_score, 2), explanation |-> rules.explanation]

calculate_color_harmony_score(colors_rgb) ==
    IF Len(colors_rgb) = 0
    THEN [score |-> Rat(0, 1),
          explanation |-> <<"No colors provided for harmony analysis.">>]
    ELSE IF Len(colors_rgb) = 1
    THEN [score |-> Rat(7, 1),
          explanation |->
              <<"Single color palette is inherently harmonious (monochromatic).">>]
    ELSE HarmonyResult(HarmonyRules(SortHues(
             [k \in 1..Len(colors_rgb) |->
                  RMul(HlsOfRgb(colors_rgb[k])[1], Rat(360, 1))])))

(***************************************************************************)
(* calculate_color_harmony_score applied to a list of colours              *)
(***************************************************************************)
MaxColors == 3

\* hues 0, 15, 60, 120, 165, 165.18, 180, 195, 240 and 350 degrees, and a grey
HarmonyColors ==
    {<<255, 0, 0>>, <<4, 1, 0>>, <<255, 255, 0>>, <<0, 255, 0>>, <<0, 4, 3>>,
     <<0, 255, 192>>, <<0, 255, 255>>, <<0, 3, 4>>, <<0, 0, 255>>, <<6, 0, 1>>,
     <<128, 128, 128>>}

HarmonyPalettes == UNION {[1..n -> HarmonyColors] : n \in 0..MaxColors}

NotScored == <<>>

InitHarmony ==
    /\ harmony_colors \in HarmonyPalettes
    /\ harmony_result = NotScored
    /\ ImageIdle
    /\ RequestIdle
    /\ PaletteIdle
    /\ ContrastIdle
    /\ AccessibleIdle
    /\ ParserIdle

CalculateColorHarmonyScore ==
    /\ harmony_result = NotScored
    /\ harmony_result' = calculate_color_harmony_score(harmony_colors)
    /\ UNCHANGED harmony_colors
    /\ UNCHANGED <<imgVars, vars, palVars, conVars, accVars, parVars>>

NextHarmony == CalculateColorHarmonyScore

SpecHarmony == InitHarmony /\ [][NextHarmony]_allVars

(***************************************************************************)
(* palette_extractor.py: extract_palette                                   *)
(***************************************************************************)
\* a file that is no image: Image.open raises
CorruptFile == [exists |-> TRUE, px |-> <<>>]

\* Image.open(img_path).convert("RGB") returns
Opens(file) == file.exists /\ file.px # <<>>

\* all_pixels: list(img.getdata()) of every file that opens, in the order of
\* the paths; img.thumbnail((200, 200)) leaves an image of up to 200 x 200
\* pixels as it is
RECURSIVE AllPixels(_)
AllPixels(paths) ==
    IF paths = <<>> THEN <<>>
    ELSE (IF Opens(Head(paths)) THEN Flatten(Head(paths).px) ELSE <<>>)
             \o AllPixels(Tail(paths))

n_clusters == 5

\* colours a cluster centre is drawn from
CentreColors == {<<255, 255, 255>>, <<0, 0, 0>>, <<90, 120, 100>>}

\* MiniBatchKMeans(n_clusters).fit of the pixels, and the centres as 0..255
\* colours in descending order of their label counts.  fit raises ValueError
\* for fewer samples than clusters.  The clustering itself is not computed:
\* every centre lies between the least and the greatest value of each
\* channel, np.bincount of the labels has one to n_clusters entries, and
\* the code reads the first three.
MiniBatchKMeans(all_pixels) ==
    IF Len(all_pixels) < n_clusters THEN {[status |-> "ValueError"]}
    ELSE LET Between(c) ==
                 \A k \in 1..3 :
                     /\ \E p \in Range(all_pixels) : p[k] <= c[k]
                     /\ \E p \in Range(all_pixels) : c[k] <= p[k]
             centres == {c \in CentreColors : Between(c)}
         IN  {[status |-> "ok", sorted |-> r] :
                  r \in UNION {[1..n -> centres] : n \in 1..3}}

DefaultPalette(explanation) ==
    [status |-> "ok",
     palette |-> [primary |-> "#FFFFFF", secondary |-> "#CCCCCC", accent |-> "#000000"],
     accessibility_suggestions |-> <<>>,
     color_harmony_score |-> [score |-> Rat(0, 1), explanation |-> <<explanation>>]]

\* x * 10^digits mod d for x >= 0 and d > 0, by long division
RECURSIVE ScaledRemainder(_, _, _)
ScaledRemainder(x, d, digits) ==
    IF digits = 0 THEN x % d ELSE ScaledRemainder((x % d) * 10, d, digits - 1)

\* round(contrast, 2)
RoundRatio(x) ==
    LET q == ScaledQuotient(x[1], x[2], 2)
        r == ScaledRemainder(x[1], x[2], 2)
    IN  Rat(IF 2 * r > x[2] \/ (2 * r = x[2] /\ q % 2 = 1) THEN q + 1 ELSE q, 100)

\* sorted_indices[k] of the centres, or the default colour of the code
DominantColors(sorted) ==
    <<IF Len(sorted) > 0 THEN sorted[1] ELSE <<255, 255, 255>>,
      IF Len(sorted) > 1 THEN sorted[2] ELSE <<204, 204, 204>>,
      IF Len(sorted) > 2 THEN sorted[3] ELSE <<0, 0, 0>> >>

\* tuple(max(0, x - by) for x in rgb) and tuple(min(255, x + by) for x in rgb)
Darker(rgb, by) == [k \in 1..3 |-> Max2(0, rgb[k] - by)]

Lighter(rgb, by) == [k \in 1..3 |-> Min2(255, rgb[k] + by)]

\* the mode bias on <<primary, secondary, accent>>
ModeBias(colors, bias) ==
    IF bias = "dark"
    THEN <<Darker(colors[1], 50), Darker(colors[2], 30), Lighter(colors[3], 50)>>
    ELSE <<Lighter(colors[1], 20), Lighter(colors[2], 10), Darker(colors[3], 20)>>

\* the palette style on one colour, given with its <<h, l, s>>
StyledColor(rgb, hls, style) ==
    IF style = "muted"
    THEN RgbOfHls(hls[1], hls[2], RMax(Rat(0, 1), RMul(hls[3], Rat(7, 10))))
    ELSE IF style = "pastel"
    THEN RgbOfHls(hls[1], RMin(Rat(1, 1), RMul(hls[2], Rat(12, 10))),
                  RMul(hls[3], Rat(8, 10)))
    ELSE rgb

PaletteStyle(colors, style) ==
    [k \in 1..3 |-> StyledColor(colors[k], HlsOfRgb(colors[k]), style)]

\* one accessibility check: no entry if the ratio meets AA for normal text,
\* else the entry appended to accessibility_suggestions
AccessibilityCheck(issue, context, ratio, advice, suggested_rgb, advice_end) ==
    IF check_wcag_compliance(ratio).AA_normal_text THEN <<>>
    ELSE <<[issue |-> issue,
            context |-> context,
            current_ratio |-> RoundRatio(ratio),
            required_AA |-> Rat(45, 10),
            suggestion |-> advice \o rgb_to_hex(suggested_rgb) \o advice_end,
            compliant_AA_normal |-> check_wcag_compliance(ratio).AA_normal_text]>>

text_color_for_contrast(primary_rgb) ==
    IF RLess(Rat(1, 2), get_luminance(primary_rgb)) THEN <<0, 0, 0>>
    ELSE <<255, 255, 255>>

\* the three checks on the palette colours and their hex codes
AccessibilityChecks(primary_rgb, secondary_rgb, accent_rgb, text_rgb, palette) ==
    AccessibilityCheck(
        "Primary color contrast with text",
        "Primary background (" \o palette.primary \o ") vs. text ("
            \o rgb_to_hex(text_rgb) \o ")",
        get_contrast_ratio(primary_rgb, text_rgb),
        "Consider adjusting text color to ",
        suggest_accessible_color(text_rgb, primary_rgb, Rat(45, 10)),
        " or primary background for better contrast.")
    \o
    AccessibilityCheck(
        "Secondary color contrast with Primary background",
        "Secondary element (" \o palette.secondary \o ") on Primary background ("
            \o palette.primary \o ")",
        get_contrast_ratio(secondary_rgb, primary_rgb),
        "Consider adjusting secondary color to ",
        suggest_accessible_color(secondary_rgb, primary_rgb, Rat(45, 10)),
        " for better contrast.")
    \o
    AccessibilityCheck(
        "Accent color contrast with Primary background",
        "Accent element (" \o palette.accent \o ") on Primary background ("
            \o palette.primary \o ")",
        get_contrast_ratio(accent_rgb, primary_rgb),
        "Consider adjusting accent color to ",
        suggest_accessible_color(accent_rgb, primary_rgb, Rat(45, 10)),
        " for better contrast.")

extracted_palette(colors) ==
    [primary   |-> rgb_to_hex(colors[1]),
     secondary |-> rgb_to_hex(colors[2]),
     accent    |-> rgb_to_hex(colors[3])]

\* the result for the final <<primary_rgb, secondary_rgb, accent_rgb>>
PaletteOfColors(colors) ==
    [status |-> "ok",
     palette |-> extracted_palette(colors),
     accessibility_suggestions |->
         AccessibilityChecks(colors[1], colors[2], colors[3],
                             text_color_for_contrast(colors[1]), extracted_palette(colors)),
     color_harmony_score |-> calculate_color_harmony_score(colors)]

\* extract_palette from the clustering on: the three colours, the mode bias,
\* the palette style, the accessibility checks and the harmony score
PaletteOfPixels(style, bias, kmeans) ==
    IF kmeans.status # "ok" THEN [status |-> kmeans.status]
    ELSE PaletteOfColors(PaletteStyle(ModeBias(DominantColors(kmeans.sorted), bias), style))

\* extract_palette without the check for an empty pixel list
ExtractPaletteNoPixelCheck(paths, style, bias, kmeans) ==
    IF paths = <<>> THEN DefaultPalette("No images provided for color analysis.")
    ELSE PaletteOfPixels(style, bias, kmeans)

\* kmeans is the outcome of the clustering of the pixels of the paths
extract_palette(paths, style, bias, kmeans) ==
    IF paths = <<>> THEN DefaultPalette("No images provided for color analysis.")
    ELSE IF AllPixels(paths) = <<>>
    THEN DefaultPalette("No valid pixels extracted for color analysis.")
    ELSE PaletteOfPixels(style, bias, kmeans)

(***************************************************************************)
(* Palette extraction as a state machine: a list of paths, a palette style *)
(* and a mode are given, extract_palette returns or raises.                *)
(***************************************************************************)
MaxPaths == 2

PaletteFiles == BatchFiles \cup {CorruptFile}

PathLists == UNION {[1..n -> PaletteFiles] : n \in 0..MaxPaths}

PaletteStyles == {"vibrant", "muted", "pastel"}

Modes == {"light", "dark"}

NotExtracted == <<>>

InitPalette ==
    /\ image_paths \in PathLists
    /\ color_palette_style \in PaletteStyles
    /\ mode \in Modes
    /\ palette_data = NotExtracted
    /\ ImageIdle
    /\ RequestIdle
    /\ ContrastIdle
    /\ AccessibleIdle
    /\ HarmonyIdle
    /\ ParserIdle

ExtractPalette ==
    /\ palette_data = NotExtracted
    /\ \E kmeans \in MiniBatchKMeans(AllPixels(image_paths)) :
           palette_data' = extract_palette(image_paths, color_palette_style, mode, kmeans)
    /\ UNCHANGED <<image_paths, color_palette_style, mode>>
    /\ UNCHANGED <<imgVars, vars, conVars, accVars, harVars, parVars>>

NextPalette == ExtractPalette

SpecPalette == InitPalette /\ [][NextPalette]_allVars

(***************************************************************************)
(* brand_guideline_parser.py: parse_brand_guidelines                       *)
(***************************************************************************)
\* JSON values: a string, a number (by its text), a list of strings
JStr(s) == [type |-> "str", text |-> s, items |-> <<>>]

JNum(s) == [type |-> "number", text |-> s, items |-> <<>>]

JList(l) == [type |-> "list", text |-> "", items |-> l]

\* the key is not in the document
Absent == [type |-> "absent", text |-> "", items |-> <<>>]

GuidelineKeys ==
    <<"primaryColor", "secondaryColor", "accentColor", "headingFont", "bodyFont",
      "layoutPreference", "designPrinciples", "invalidKey">>

\* the JSON object holding the values that are not Absent, key by key
DocOf(vals) ==
    [k \in {GuidelineKeys[i] : i \in {j \in 1..Len(GuidelineKeys) : vals[j] # Absent}} |->
         vals[CHOOSE i \in 1..Len(GuidelineKeys) : GuidelineKeys[i] = k]]

GuidelineDocs ==
    {DocOf(<<p, s, a, h, b, l, d, i>>) :
         p \in {Absent, JStr("#1A73E8"), JStr("not_a_hex")},
         s \in {Absent, JStr("#ABC"), JStr("#12345")},
         a \in {Absent, JNum("123")},
         h \in {Absent, JStr("Roboto"), JStr("")},
         b \in {Absent, JStr("Open Sans"), JNum("12")},
         l \in {Absent, JStr("minimalist"), JStr("modern"), JStr("unknown_style")},
         d \in {Absent, JList(<<"clean", "bold">>), JStr("clean")},
         i \in {Absent, JNum("123")}}

\* the file is missing, is no JSON, holds a JSON value that is no object, or
\* holds an object
GuidelineFiles ==
    {[exists |-> FALSE], [exists |-> TRUE, json |-> "invalid"],
     [exists |-> TRUE, json |-> "number"]}
        \cup {[exists |-> TRUE, json |-> "object", doc |-> doc] : doc \in GuidelineDocs}

\* isinstance(v, str) and v.startswith("#") and len(v) in [7, 4]
ValidColor(v) ==
    /\ v.type = "str"
    /\ Len(v.text) >= 1
    /\ SubSeq(v.text, 1, 1) = "#"
    /\ Len(v.text) \in {7, 4}

\* isinstance(v, str) and v
ValidFont(v) == v.type = "str" /\ v.text # ""

\* isinstance(v, str) and v in ["minimalist", "bold", "classic", "modern"]
ValidLayoutPreference(v) ==
    v.type = "str" /\ v.text \in {"minimalist", "bold", "classic", "modern"}

\* the keys the parser copies
ParsedKeys(doc) ==
    {k \in DOMAIN doc \cap {"primaryColor", "secondaryColor", "accentColor"} : ValidColor(doc[k])}
        \cup {k \in DOMAIN doc \cap {"headingFont", "bodyFont"} : ValidFont(doc[k])}
        \cup {k \in DOMAIN doc \cap {"layoutPreference"} : ValidLayoutPreference(doc[k])}

\* the call returns a dict on every path: the missing file (line 15), the
\* JSON error (line 49), any other exception (line 52), the copied keys
parse_brand_guidelines(file) ==
    IF ~file.exists THEN [status |-> "ok", guidelines |-> EmptyDict]
    ELSE IF file.json = "invalid" THEN [status |-> "ok", guidelines |-> EmptyDict]
    ELSE IF file.json # "object" THEN [status |-> "ok", guidelines |-> EmptyDict]
    ELSE [status |-> "ok", guidelines |-> [k \in ParsedKeys(file.doc) |-> file.doc[k]]]

NotParsed == <<>>

InitParser ==
    /\ guidelines_file \in GuidelineFiles
    /\ parsed = NotParsed
    /\ ImageIdle
    /\ RequestIdle
    /\ PaletteIdle
    /\ ContrastIdle
    /\ AccessibleIdle
    /\ HarmonyIdle

ParseBrandGuidelines ==
    /\ parsed = NotParsed
    /\ parsed' = parse_brand_guidelines(guidelines_file)
    /\ UNCHANGED guidelines_file
    /\ UNCHANGED <<imgVars, vars, palVars, conVars, accVars, harVars>>

NextParser == ParseBrandGuidelines

SpecParser == InitParser /\ [][NextParser]_allVars

(***************************************************************************)
(* Properties of the image analysis                                        *)
(***************************************************************************)
Analyzed == apc = "analyzed" /\ image_path.exists

IsSolid(px) == Cardinality(Range(Flatten(px))) = 1

Zero == Rat(0, 1)

One == Rat(1, 1)

C9_WhitespaceAndSymmetryInRange ==
    Analyzed =>
        /\ RLeq(Zero, results.whitespace_percentage)
        /\ RLeq(results.whitespace_percentage, Rat(100, 1))
        /\ RLeq(Zero, results.symmetry.horizontal)
        /\ RLeq(results.symmetry.horizontal, One)
        /\ RLeq(Zero, results.symmetry.vertical)
        /\ RLeq(results.symmetry.vertical, One)

\* an image of mixed pixels has been analysed, with a symmetry score and a
\* whitespace share strictly inside their ranges
C9_Witness ==
    /\ Analyzed
    /\ ~IsSolid(image_path.px)
    /\ RLess(Zero, results.symmetry.vertical)
    /\ RLess(results.symmetry.vertical, One)
    /\ RLess(Zero, results.whitespace_percentage)
    /\ RLess(results.whitespace_percentage, Rat(100, 1))

(***************************************************************************)
(* Properties of a generation request                                      *)
(***************************************************************************)
FontsCalled == font_suggestions # NotCalled

JsCalled == js_component_suggestions # NotCalled

LayoutCalled == layout_result # NotCalled

BothFontsSet(g) == Truthy(Get(g, "headingFont")) /\ Truthy(Get(g, "bodyFont"))

\* C1: whenever the brand guidelines hold a non-empty headingFont and a
\* non-empty bodyFont, suggest_fonts returns exactly these two fonts,
\* whatever the batch of analysis records is, and scores no catalogue
\* pairing.
C1_BrandFontsReturnedUnscored ==
    (FontsCalled /\ BothFontsSet(brand_guidelines)) =>
        /\ font_suggestions.status = "ok"
        /\ font_suggestions.heading_font = brand_guidelines.headingFont
        /\ font_suggestions.body_font = brand_guidelines.bodyFont
        /\ font_suggestions.scored = 0

\* suggest_fonts returned Georgia/Verdana for a batch of two records that
\* carries mood tags
C1_Witness ==
    /\ FontsCalled
    /\ brand_guidelines = [headingFont |-> "Georgia", bodyFont |-> "Verdana"]
    /\ Len(image_analysis_results) = 2
    /\ "playful" \in font_suggestions.aggregated.inferred_mood_tags
    /\ font_suggestions.heading_font = "Georgia"
    /\ font_suggestions.body_font = "Verdana"
    /\ font_suggestions.scored = 0

\* the layoutPreference the priority order of the claim gives
PreferenceByPriority(agg) ==
    LET moods == agg.inferred_mood_tags
    IN  IF "minimalist" \in moods \/ RLess(Rat(3, 4), agg.avg_whitespace) THEN "minimalist"
        ELSE IF "dense" \in moods \/ RLess(agg.avg_whitespace, Rat(1, 4)) THEN "bold"
        ELSE IF "creative" \in moods \/ "dynamic" \in moods \/ RLess(Rat(13, 2), agg.avg_entropy)
             THEN "modern"
        ELSE "classic"

\* a batch whose mean whitespace is 85% and whose mean symmetries are 0.95
CalmBatch(agg) ==
    /\ agg.avg_whitespace = Rat(85, 100)
    /\ agg.avg_h_symmetry = Rat(95, 100)
    /\ agg.avg_v_symmetry = Rat(95, 100)

\* C3: for an empty guideline record generate_layout synthesizes the
\* layoutPreference of the first matching rule in the order minimalist,
\* bold, modern, classic; a batch with mean whitespace 85% and symmetries
\* 0.95 gets "minimalist", and "structured" is among its designPrinciples
\* exactly when the mean balance exceeds 0.9.
C3_LayoutPreferenceByPriority ==
    (LayoutCalled /\ DOMAIN brand_guidelines = {}) =>
        LET agg == layout_result.aggregated
            active == layout_result.active_brand_guidelines
        IN  /\ active.layoutPreference = PreferenceByPriority(agg)
            /\ CalmBatch(agg) =>
                   /\ active.layoutPreference = "minimalist"
                   /\ "structured" \in Range(active.designPrinciples)
                          <=> RLess(Rat(9, 10), agg.avg_visual_balance)

\* generate_layout inferred "minimalist" from the whitespace alone for a calm
\* batch whose balance is exactly 0.9, and left "structured" out
C3_Witness ==
    /\ LayoutCalled
    /\ DOMAIN brand_guidelines = {}
    /\ CalmBatch(layout_result.aggregated)
    /\ "minimalist" \notin layout_result.aggregated.inferred_mood_tags
    /\ layout_result.aggregated.avg_visual_balance = Rat(9, 10)
    /\ layout_result.active_brand_guidelines.layoutPreference = "minimalist"
    /\ "structured" \notin Range(layout_result.active_brand_guidelines.designPrinciples)

\* C4: a call of generate_layout leaves the caller's guideline record as it
\* was; for a non-empty record the active guidelines it uses and returns
\* are equal to that record (no key added), and for the empty record they
\* hold exactly the two synthesized keys.
C4_InferenceOnlyForEmptyRecord ==
    [][(~LayoutCalled /\ LayoutCalled') =>
          /\ brand_guidelines' = brand_guidelines
          /\ DOMAIN brand_guidelines # {} =>
                 layout_result'.active_brand_guidelines = brand_guidelines
          /\ DOMAIN brand_guidelines = {} =>
                 DOMAIN layout_result'.active_brand_guidelines =
                     {"layoutPreference", "designPrinciples"}]_allVars

\* generate_layout returned for a record that holds a heading font only, and
\* its active guidelines are that record
C4_Witness ==
    /\ LayoutCalled
    /\ layout_result.status = "ok"
    /\ brand_guidelines = [headingFont |-> "Georgia"]
    /\ layout_result.active_brand_guidelines = [headingFont |-> "Georgia"]
    /\ Len(image_analysis_results) = 1
    /\ "minimalist" \in layout_result.aggregated.inferred_mood_tags

\* every numeric field of an analysis record is non-null
AllNumericNonNull(a) ==
    /\ a.whitespace_percentage # None
    /\ a.symmetry.horizontal # None
    /\ a.symmetry.vertical # None
    /\ a.fractal_dimension # None
    /\ a.entropy # None
    /\ a.visual_balance_score # None
    /\ a.aesthetic_neural_score.score # None

SingleFullBatch ==
    Len(image_analysis_results) = 1 /\ AllNumericNonNull(image_analysis_results[1])

\* the six aggregated values other than whitespace are those of record a
SameMetrics(agg, a) ==
    /\ agg.avg_h_symmetry = a.symmetry.horizontal
    /\ agg.avg_v_symmetry = a.symmetry.vertical
    /\ agg.avg_fractal_dimension = a.fractal_dimension
    /\ agg.avg_entropy = a.entropy
    /\ agg.avg_visual_balance = a.visual_balance_score
    /\ agg.avg_aesthetic_score = a.aesthetic_neural_score.score

\* C6 (as claimed): for a batch of one record whose numeric fields are all
\* non-null, every aggregated value of suggest_fonts and of
\* suggest_js_components, the whitespace included, equals the record's own
\* value.
C6_SingleRecordAllValuesEqual ==
    SingleFullBatch =>
        LET a == image_analysis_results[1]
        IN  /\ FontsCalled =>
                   /\ font_suggestions.aggregated.avg_whitespace = a.whitespace_percentage
                   /\ SameMetrics(font_suggestions.aggregated, a)
            /\ JsCalled =>
                   /\ js_component_suggestions.aggregated.avg_whitespace = a.whitespace_percentage
                   /\ SameMetrics(js_component_suggestions.aggregated, a)

\* C6 (amended): for a batch of one record whose numeric fields are all
\* non-null, the aggregated symmetries, fractal dimension, entropy, balance
\* and aesthetic score of suggest_fonts and of suggest_js_components equal
\* the record's own values, and the aggregated whitespace is the record's
\* whitespace_percentage divided by 100.
C6_SingleRecordWhitespaceAsFraction ==
    SingleFullBatch =>
        LET a == image_analysis_results[1]
        IN  /\ FontsCalled =>
                   /\ REq(RMul(font_suggestions.aggregated.avg_whitespace, Rat(100, 1)),
                          a.whitespace_percentage)
                   /\ SameMetrics(font_suggestions.aggregated, a)
            /\ JsCalled =>
                   /\ REq(RMul(js_component_suggestions.aggregated.avg_whitespace, Rat(100, 1)),
                          a.whitespace_percentage)
                   /\ SameMetrics(js_component_suggestions.aggregated, a)

\* both suggesters aggregated the batch holding only the calm fixture: a
\* whitespace of 85 became 0.85, the entropy stayed 2.0
C6_Witness ==
    /\ FontsCalled
    /\ JsCalled
    /\ image_analysis_results = <<dummy_image_analysis_minimal_calm>>
    /\ font_suggestions.aggregated.avg_whitespace = Rat(85, 100)
    /\ js_component_suggestions.aggregated.avg_whitespace = Rat(85, 100)
    /\ font_suggestions.aggregated.avg_entropy = Rat(2, 1)

RECURSIVE SumOver(_, _)
SumOver(vals, idx) ==
    IF idx = {} THEN Rat(0, 1)
    ELSE LET i == CHOOSE j \in idx : TRUE
         IN  RAdd(vals[i], SumOver(vals, idx \ {i}))

\* the mean of the entries of vals that are not null, or default when every
\* entry is null
MeanOfSuppliers(vals, default) ==
    LET idx == {i \in DOMAIN vals : vals[i] # None}
    IN  IF idx = {} THEN default
        ELSE RMul(SumOver(vals, idx), Rat(1, Cardinality(idx)))

\* C7: every aggregated numeric field of generate_layout is the mean over
\* exactly the records of the batch whose own value of that field is not
\* null (the whitespace mean taken as a fraction), whatever the record's
\* other fields are, and is the default 0.5, 0.5, 0.5, 1.5, 4.0, 0.5 or 5
\* when no record supplies the field; it is a number for every batch.
C7_MeanPerFieldOrDefault ==
    LayoutCalled =>
        LET b == image_analysis_results
            agg == layout_result.aggregated
        IN  /\ agg.avg_whitespace =
                   RMul(MeanOfSuppliers([i \in 1..Len(b) |-> b[i].whitespace_percentage],
                                        Rat(50, 1)), Rat(1, 100))
            /\ agg.avg_h_symmetry =
                   MeanOfSuppliers([i \in 1..Len(b) |-> b[i].symmetry.horizontal], Rat(1, 2))
            /\ agg.avg_v_symmetry =
                   MeanOfSuppliers([i \in 1..Len(b) |-> b[i].symmetry.vertical], Rat(1, 2))
            /\ agg.avg_fractal_dimension =
                   MeanOfSuppliers([i \in 1..Len(b) |-> b[i].fractal_dimension], Rat(3, 2))
            /\ agg.avg_entropy =
                   MeanOfSuppliers([i \in 1..Len(b) |-> b[i].entropy], Rat(4, 1))
            /\ agg.avg_visual_balance =
                   MeanOfSuppliers([i \in 1..Len(b) |-> b[i].visual_balance_score], Rat(1, 2))
            /\ agg.avg_aesthetic_score =
                   MeanOfSuppliers([i \in 1..Len(b) |-> b[i].aesthetic_neural_score.score],
                                   Rat(5, 1))

\* generate_layout aggregated a record without whitespace together with the
\* calm fixture: the whitespace is the fixture's alone, the entropy the mean
\* of both
C7_Witness ==
    /\ LayoutCalled
    /\ image_analysis_results = <<PartialAnalysis, dummy_image_analysis_minimal_calm>>
    /\ layout_result.aggregated.avg_whitespace = Rat(85, 100)
    /\ layout_result.aggregated.avg_entropy = Rat(19, 4)
    /\ layout_result.aggregated.avg_aesthetic_score = Rat(9, 1)

\* every record of the batch was produced by analyze_image
FromAnalyzer ==
    \A i \in 1..Len(image_analysis_results) : image_analysis_results[i] \in AnalyzerRecords

Sentinels == {"neutral", "unknown"}

\* C8: for a batch of records of analyze_image, the mood tags and the
\* typography tags generate_layout aggregates are the union of the tags of
\* the records without the sentinels, so neither set holds "neutral" or
\* "unknown".
C8_AggregatedTagsExcludeSentinels ==
    (LayoutCalled /\ FromAnalyzer) =>
        LET b == image_analysis_results
            agg == layout_result.aggregated
        IN  /\ agg.inferred_mood_tags =
                   (UNION {SplitTags(b[i].mood_emotion) : i \in 1..Len(b)}) \ Sentinels
            /\ agg.inferred_typography_tags =
                   (UNION {SplitTags(b[i].typography_inference) : i \in 1..Len(b)})
                       \ Sentinels
            /\ agg.inferred_mood_tags \cap Sentinels = {}
            /\ agg.inferred_typography_tags \cap Sentinels = {}

(***************************************************************************)
(* Properties of the contrast ratio                                        *)
(***************************************************************************)
ContrastComputed == contrast_ratio # NotComputed

\* C10: for all RGB colours a and b, get_contrast_ratio(a, b) equals
\* get_contrast_ratio(b, a), get_contrast_ratio(a, a) equals 1.0, and the
\* ratio is never below 1.
C10_ContrastSymmetricAndAtLeastOne ==
    ContrastComputed =>
        /\ contrast_ratio.forward = contrast_ratio.backward
        /\ contrast_ratio.self = One
        /\ RLeq(One, contrast_ratio.forward)
        /\ RLeq(One, contrast_ratio.backward)

\* two different colours were compared, the second the lighter one, so the
\* luminances were swapped for the first ratio
C10_Witness ==
    /\ ContrastComputed
    /\ rgb1 # rgb2
    /\ RLess(get_luminance(rgb1), get_luminance(rgb2))
    /\ RLess(One, contrast_ratio.forward)

(***************************************************************************)
(* Properties of the palette extraction                                    *)
(***************************************************************************)
PaletteExtracted == palette_data # NotExtracted

NoImageOpens == \A i \in 1..Len(image_paths) : ~Opens(image_paths[i])

\* C2: extract_palette called with an empty path list, or with a list in
\* which every image fails to open, returns without raising the palette
\* {primary #FFFFFF, secondary #CCCCCC, accent #000000}, an empty list of
\* accessibility suggestions and a harmony score of 0.0, for every mode and
\* palette style.
C2_DefaultPaletteWhenNoImageOpens ==
    (PaletteExtracted /\ NoImageOpens) =>
        /\ palette_data.status = "ok"
        /\ palette_data.palette =
               [primary |-> "#FFFFFF", secondary |-> "#CCCCCC", accent |-> "#000000"]
        /\ palette_data.accessibility_suggestions = <<>>
        /\ palette_data.color_harmony_score.score = Zero

\* extract_palette returned for a missing and a corrupt file, in dark mode
\* with the pastel style
C2_Witness ==
    /\ PaletteExtracted
    /\ image_paths = <<MissingFile, CorruptFile>>
    /\ mode = "dark"
    /\ color_palette_style = "pastel"
    /\ palette_data.palette.primary = "#FFFFFF"
    /\ palette_data.color_harmony_score.score = Zero


(***************************************************************************)
(* suggest_accessible_color                                                *)
(***************************************************************************)
ColorReturned == spc = "returned"

InUnit(x) == RLeq(Rat(0, 1), x) /\ RLeq(x, Rat(1, 1))

IsRgb(rgb) == Len(rgb) = 3 /\ \A c \in 1..3 : rgb[c] \in 0..255

OriginalMeetsTarget == MeetsTarget(original_rgb, background_rgb, target_contrast)

C11_BoundedSearch ==
    /\ attempt \in 0..max_attempts
    /\ InUnit(lightness)
    /\ IsRgb(current_rgb)
    /\ (ColorReturned /\ OriginalMeetsTarget) => (current_rgb = original_rgb /\ attempt = 0)

\* a step either returns or uses up one of the max_attempts adjustments
C11_StepUsesAttempt ==
    \/ spc' = "returned" /\ attempt' = attempt /\ current_rgb' = current_rgb
    \/ spc' = "looping" /\ attempt < max_attempts /\ attempt' = attempt + 1

\* C11: the search for an accessible colour returns after at most 20 lightness
\* adjustments (every step that does not return uses up one of the 20), the
\* lightness stays within [0, 1] after every adjustment, the colour held has its
\* three channels in 0..255, and a foreground that already meets the target is
\* returned as given after no adjustment.
C11_AccessibleColorTerminatesInRange ==
    [](spc # "idle" => C11_BoundedSearch) /\ [][spc = "looping" => C11_StepUsesAttempt]_allVars

\* all 20 adjustments are used, the last ones held at the lower end of the range
C11_Witness ==
    /\ ColorReturned
    /\ attempt = max_attempts
    /\ lightness = Rat(0, 1)
    /\ current_rgb # original_rgb

ContrastWithBackground(rgb) == get_contrast_ratio(rgb, background_rgb)

\* C12: every lightness adjustment leaves the foreground with at least the
\* contrast against the background it had before the adjustment, and the colour
\* returned has at least the contrast of the original foreground.
C12_AdjustmentNeverLowersContrast ==
    /\ [][AdjustStep => RLeq(ContrastWithBackground(current_rgb), ContrastWithBackground(current_rgb'))]_allVars
    /\ [](ColorReturned => RLeq(ContrastWithBackground(original_rgb), ContrastWithBackground(current_rgb)))

(***************************************************************************)
(* calculate_color_harmony_score                                           *)
(***************************************************************************)
HarmonyScored == harmony_result # NotScored

HueDegrees(rgb) == RMul(HlsOfRgb(rgb)[1], Rat(360, 1))

\* how far the angular distance of the two hues of a two-colour list is from 180 degrees
OffOpposite ==
    RAbs(RSub(AngularDiff(HueDegrees(harmony_colors[1]), HueDegrees(harmony_colors[2])), Rat(180, 1)))

ComplementaryApplied ==
    /\ \E k \in 1..Len(harmony_result.explanation) :
           harmony_result.explanation[k] = "Complementary (two main hues are opposite)."
    /\ RLeq(Rat(4, 1), harmony_result.score)

\* C13 as stated: two colours whose hue distance is at most 15 degrees away
\* from 180 degrees get the complementary bonus and a score of at least 4.0.
C13_ComplementaryWithin15Inclusive ==
    (HarmonyScored /\ Len(harmony_colors) = 2 /\ RLeq(OffOpposite, Rat(15, 1)))
        => ComplementaryApplied

\* C13: two colours whose hue distance is less than 15 degrees away from 180
\* degrees get the complementary bonus and a score of at least 4.0.
C13_ComplementaryWithin15Strict ==
    (HarmonyScored /\ Len(harmony_colors) = 2 /\ RLess(OffOpposite, Rat(15, 1)))
        => ComplementaryApplied

\* red and a green-cyan whose hue is 165.18 degrees
C13_Witness ==
    /\ HarmonyScored
    /\ harmony_colors = <<<<255, 0, 0>>, <<0, 255, 192>>>>
    /\ RLess(Rat(14, 1), OffOpposite)
    /\ harmony_result.score = Rat(4, 1)

NoRuleFired ==
    harmony_result.explanation = <<"No specific harmony pattern detected, but colors are present.">>

\* the bonus, in halves, of the rule that wrote an entry of the explanation
BonusOf(entry) ==
    IF entry = "Monochromatic (hues are very close)." THEN 4
    ELSE IF entry = "Analogous (hues are close on the color wheel)." THEN 6
    ELSE IF entry = "Complementary (two main hues are opposite)." THEN 8
    ELSE IF entry = "Triadic (three main hues are equally spaced)." THEN 10
    ELSE 3

FiredBonuses == SumSeq([k \in 1..Len(harmony_result.explanation) |-> BonusOf(harmony_result.explanation[k])])

\* C14: for two or more colours the score is the sum of the bonuses of the
\* rules that fired, kept within [0, 10]; it is exactly 3.0 when no rule fired;
\* pure red, green and blue score exactly the triadic 5.0.
C14_ScoreIsClampedSumOfBonuses ==
    (HarmonyScored /\ Len(harmony_colors) >= 2) =>
        /\ NoRuleFired => harmony_result.score = Rat(3, 1)
        /\ ~NoRuleFired => harmony_result.score = Rat(Max2(0, Min2(20, FiredBonuses)), 2)
        /\ harmony_colors = <<<<255, 0, 0>>, <<0, 255, 0>>, <<0, 0, 255>>>>
               => harmony_result.score = Rat(5, 1)

\* two rules fired for one palette and their bonuses were added
C14_Witness ==
    /\ HarmonyScored
    /\ Len(harmony_colors) >= 2
    /\ Len(harmony_result.explanation) = 2
    /\ harmony_result.score = Rat(5, 1)

\* no rule fired for a palette of three colours
C14_WitnessNoRule ==
    /\ HarmonyScored
    /\ Len(harmony_colors) = 3
    /\ NoRuleFired

(***************************************************************************)
(* generate_layout: the layout style rendered                              *)
(***************************************************************************)
ActivePreference == Get(layout_result.active_brand_guidelines, "layoutPreference")

\* the style the claim gives for a layoutPreference, none for any other value
PreferenceStyle(pref) ==
    CASE pref = "minimalist" -> "minimal"
      [] pref = "bold"       -> "dense"
      [] pref = "classic"    -> "minimal"
      [] pref = "modern"     -> "creative"
      [] OTHER               -> NoneStr

MappedPreferences == {"minimalist", "bold", "classic", "modern"}

PreferenceOverridesCaller ==
    ActivePreference \in MappedPreferences
        => layout_result.layout_style = PreferenceStyle(ActivePreference)

\* the style rendered is the caller's and no layoutPreference stands for it
CallerStyleUsed ==
    /\ layout_result.layout_style = layout_style
    /\ layout_result.layout_style # PreferenceStyle(ActivePreference)

Parsed == parsed # NotParsed

HoldsObject == guidelines_file.exists /\ guidelines_file.json = "object"

\* a recognized key with a value of the form the guideline record asks for
WellFormed(k, v) ==
    CASE k \in {"primaryColor", "secondaryColor", "accentColor"} -> ValidColor(v)
      [] k \in {"headingFont", "bodyFont"} -> ValidFont(v)
      [] k = "layoutPreference" -> ValidLayoutPreference(v)
      [] k = "designPrinciples" -> v.type = "list"
      [] OTHER -> FALSE

WellFormedKeys(doc) == {k \in DOMAIN doc : WellFormed(k, doc[k])}

\* C16: parse_brand_guidelines raises for no file; it returns the empty record
\* for a missing file and for invalid JSON; for a JSON object it returns
\* exactly the recognized well-formed keys (the three colours, the two fonts,
\* layoutPreference, designPrinciples) with their values unchanged, so that no
\* well-formed recognized key is dropped and every other key is.
C16_ParsedIsExactlyWellFormedKeys ==
    Parsed =>
        /\ parsed.status = "ok"
        /\ ~HoldsObject => parsed.guidelines = EmptyDict
        /\ HoldsObject =>
               /\ DOMAIN parsed.guidelines = WellFormedKeys(guidelines_file.doc)
               /\ \A k \in DOMAIN parsed.guidelines :
                      parsed.guidelines[k] = guidelines_file.doc[k]

\* what the parser does: the same without designPrinciples
C16_ParsedWithoutDesignPrinciples ==
    Parsed =>
        /\ parsed.status = "ok"
        /\ ~HoldsObject => parsed.guidelines = EmptyDict
        /\ HoldsObject =>
               /\ DOMAIN parsed.guidelines = WellFormedKeys(guidelines_file.doc) \ {"designPrinciples"}
               /\ \A k \in DOMAIN parsed.guidelines :
                      parsed.guidelines[k] = guidelines_file.doc[k]

(***************************************************************************)
(* generate_layout on an empty batch                                       *)
(***************************************************************************)
\* a record parse_brand_guidelines can return
ParserAcceptable(g) ==
    /\ DOMAIN g \subseteq {"primaryColor", "secondaryColor", "accentColor",
                          "headingFont", "bodyFont", "layoutPreference"}
    /\ "layoutPreference" \in DOMAIN g => g.layoutPreference \in MappedPreferences
    /\ \A k \in DOMAIN g \cap {"headingFont", "bodyFont"} : g[k] # ""

\* C17: for an empty batch, every guideline record the parser can return and
\* every caller layout style, generate_layout returns its result and raises
\* nothing.
C17_EmptyBatchNeverRaises ==
    (LayoutCalled /\ image_analysis_results = <<>> /\ ParserAcceptable(brand_guidelines))
        => layout_result.status = "ok"

(***************************************************************************)
(* suggest_fonts: the scoring loop                                         *)
(***************************************************************************)
\* the score the loop gives catalogue entry i in the call made
ScoreInCall(i) ==
    LET active == font_suggestions.active_brand_guidelines
        principles == DesignPrinciplesOf(active)
        agg == font_suggestions.aggregated
    IN  PairingScore(FONT_PAIRINGS[i],
                     agg.inferred_mood_tags \cup principles,
                     agg.inferred_typography_tags \cup principles,
                     agg, Get(active, "headingFont"), Get(active, "bodyFont"))

NoBrandFont ==
    /\ ~Truthy(Get(font_suggestions.active_brand_guidelines, "headingFont"))
    /\ ~Truthy(Get(font_suggestions.active_brand_guidelines, "bodyFont"))

ReturnedIsMaximal ==
    \E i \in 1..Len(FONT_PAIRINGS) :
        /\ FONT_PAIRINGS[i].heading = font_suggestions.heading_font
        /\ FONT_PAIRINGS[i].body = font_suggestions.body_font
        /\ \A j \in 1..Len(FONT_PAIRINGS) : RLeq(ScoreInCall(j), ScoreInCall(i))

\* C18: a call whose guidelines do not give both fonts returns a result also
\* when two catalogue pairings reach the same maximal score, and with no brand
\* font at all the pairing returned is one of maximal score.
C18_ScoringReturnsMaximalPairing ==
    (FontsCalled /\ ~BothFontsSet(font_suggestions.active_brand_guidelines)) =>
        /\ font_suggestions.status = "ok"
        /\ NoBrandFont => ReturnedIsMaximal

\* calls that return do return a pairing of maximal score
C18_ReturnedPairingIsMaximal ==
    (FontsCalled /\ font_suggestions.status = "ok" /\ NoBrandFont) => ReturnedIsMaximal

(***************************************************************************)
(* analyze_image: symmetry as a sum of absolute differences                *)
(***************************************************************************)
\* the sum of |a - b| over the top half and the mirrored bottom half
TrueHorizontalDiff(g) ==
    LET h == Len(g)
        w == Len(g[1])
    IN  SumSeq([k \in 1..((h \div 2) * w) |->
                  Abs(g[((k - 1) \div w) + 1][((k - 1) % w) + 1]
                        - g[h - ((k - 1) \div w)][((k - 1) % w) + 1])])

\* the sum of |a - b| over the left half and the mirrored right half
TrueVerticalDiff(g) ==
    LET h  == Len(g)
        hw == Len(g[1]) \div 2
    IN  SumSeq([k \in 1..(h * hw) |->
                  Abs(g[((k - 1) \div hw) + 1][((k - 1) % hw) + 1]
                        - g[((k - 1) \div hw) + 1][Len(g[1]) - ((k - 1) % hw)])])

\* C19: for an image of at least 2 x 2 pixels each symmetry score is
\* 1 - D / (255 * n), D the sum of the true absolute differences |a - b| of
\* the n mirrored pixel pairs; a half of 0 against a half of 255 scores 0.
C19_SymmetryFromTrueDifferences ==
    (Analyzed /\ Height(image_path.px) >= 2 /\ Width(image_path.px) >= 2) =>
        LET g == GrayArray(image_path.px)
            nh == (Height(image_path.px) \div 2) * Width(image_path.px)
            nv == Height(image_path.px) * (Width(image_path.px) \div 2)
        IN  /\ results.symmetry.horizontal = Rat(255 * nh - TrueHorizontalDiff(g), 255 * nh)
            /\ results.symmetry.vertical = Rat(255 * nv - TrueVerticalDiff(g), 255 * nv)

(***************************************************************************)
(* analyze_image: the mood tags                                            *)
(***************************************************************************)
\* C20: the mood tags of an analysed image never hold "vibrant" together
\* with "minimalist".
C20_NeverVibrantAndMinimalist ==
    Analyzed => ~({"vibrant", "minimalist"} \subseteq Range(results.mood_emotion))

(***************************************************************************)
(* calculate_color_harmony_score: complementary pairs in larger palettes   *)
(***************************************************************************)
\* the pairs of positions of the list whose hues are opposite
OppositeHuePairs ==
    {pr \in (1..Len(harmony_colors)) \X (1..Len(harmony_colors)) :
         /\ pr[1] < pr[2]
         /\ Near(AngularDiff(HueDegrees(harmony_colors[pr[1]]), HueDegrees(harmony_colors[pr[2]])), 180)}

\* the entries of the explanation written by the pair rule of lines 160-162
PairEntries == {k \in 1..Len(harmony_result.explanation) : BonusOf(harmony_result.explanation[k]) = 3}

\* C21: for a palette of more than two colours the pair rule adds 1.5 once
\* for every pair of hues whose angular distance is less than 15 degrees
\* away from 180 degrees.
C21_BonusPerComplementaryPair ==
    (HarmonyScored /\ Len(harmony_colors) > 2) =>
        Cardinality(PairEntries) = Cardinality(OppositeHuePairs)

(***************************************************************************)
(* calculate_color_harmony_score: the monochromatic rule                   *)
(***************************************************************************)
MonochromaticApplied ==
    \E k \in 1..Len(harmony_result.explanation) :
        harmony_result.explanation[k] = "Monochromatic (hues are very close)."

\* every pair of hues of the list is less than 15 degrees apart on the wheel
AllHuesWithin15 ==
    \A i, j \in 1..Len(harmony_colors) :
        RLess(AngularDiff(HueDegrees(harmony_colors[i]), HueDegrees(harmony_colors[j])), Rat(15, 1))

\* C22: for a palette of two or of three colours the monochromatic bonus is
\* given only when every pair of hues is less than 15 degrees apart on the
\* colour wheel.
C22_MonochromaticOnlyWhenAllHuesClose ==
    (HarmonyScored /\ Len(harmony_colors) \in {2, 3} /\ MonochromaticApplied) => AllHuesWithin15

\* the same for palettes of two colours only
C22_MonochromaticPairIsClose ==
    (HarmonyScored /\ Len(harmony_colors) = 2 /\ MonochromaticApplied) => AllHuesWithin15

(***************************************************************************)
(* generate_layout: the layering of the utility classes                    *)
(***************************************************************************)
\* the classes each design-principle rule assigns (lines 200-243)
PrincipleAssigns(principle) ==
    CASE principle = "structured" ->
             [button_rounded_class |-> "rounded-md", card_rounded_class |-> "rounded-lg",
              header_shadow_class |-> "shadow-lg",
              border_style_class |-> "border-solid border-gray-300 border-2",
              text_leading_class |-> "leading-normal", text_tracking_class |-> "tracking-tight"]
      [] principle = "organic" ->
             [button_rounded_class |-> "rounded-full", card_rounded_class |-> "rounded-3xl",
              bg_pattern_class |-> "bg-repeat bg-center bg-gray-100 bg-opacity-50",
              border_style_class |-> "border-dotted border-primary border-2",
              text_leading_class |-> "leading-loose", text_tracking_class |-> "tracking-wide"]
      [] principle = "bold" ->
             [header_shadow_class |-> "shadow-2xl", card_shadow_class |-> "shadow-xl",
              section_padding_class |-> "golden_spacing_sm",
              border_style_class |-> "border-solid border-accent border-4",
              text_leading_class |-> "leading-tight", text_tracking_class |-> "tracking-wider"]
      [] principle = "subtle" ->
             [header_shadow_class |-> "shadow-sm", card_shadow_class |-> "shadow-sm",
              transition_class |-> "transition-all duration-700 ease-in-out",
              bg_pattern_class |-> "bg-white", border_style_class |-> "border-none",
              text_leading_class |-> "leading-relaxed", text_tracking_class |-> "tracking-normal"]
      [] principle = "clean" ->
             [card_shadow_class |-> "shadow-none", card_rounded_class |-> "rounded-md",
              bg_pattern_class |-> "bg-white", border_style_class |-> "border-gray-100 border",
              text_leading_class |-> "leading-relaxed", text_tracking_class |-> "tracking-tight"]
      [] principle = "complex" ->
             [card_shadow_class |-> "shadow-xl", button_rounded_class |-> "rounded-lg",
              bg_pattern_class |-> "bg-repeat bg-center bg-gray-200",
              border_style_class |-> "border-solid border-gray-500 border-2",
              text_leading_class |-> "leading-tight", text_tracking_class |-> "tracking-normal"]

\* the designPrinciples list of the active guidelines of the call
ActivePrinciplesList ==
    IF "designPrinciples" \in DOMAIN layout_result.active_brand_guidelines
    THEN layout_result.active_brand_guidelines.designPrinciples ELSE <<>>

\* the positions in the fixed order of the matching principles that assign the class
AssigningPositions(class) ==
    {k \in 1..Len(PrincipleOrder) :
         /\ \E i \in 1..Len(ActivePrinciplesList) : StripLower(ActivePrinciplesList[i]) = PrincipleOrder[k]
         /\ class \in DOMAIN PrincipleAssigns(PrincipleOrder[k])}

LastAssigning(class) ==
    PrincipleOrder[CHOOSE k \in AssigningPositions(class) : \A m \in AssigningPositions(class) : m <= k]

\* the classes the mood rules alone leave (lines 153-198)
MoodClasses == StyleClasses(layout_result.aggregated, {})

\* the lists that hold the entries of the list in another order
Reordered(list) ==
    {[i \in 1..Len(list) |-> list[f[i]]] :
         f \in {g \in [1..Len(list) -> 1..Len(list)] : \A a, b \in 1..Len(list) : g[a] = g[b] => a = b}}

\* C23: every class that a matching design principle assigns holds the value
\* of the last such principle in the order structured, organic, bold, subtle,
\* clean, complex; every other class holds the value the mood rules left; the
\* classes are the same for every order of the designPrinciples list, and the
\* entries of the list match whatever their letter case.
C23_PrinciplesOverrideMoodClasses ==
    LayoutCalled =>
        /\ \A class \in DOMAIN layout_result.classes :
               layout_result.classes[class] =
                   IF AssigningPositions(class) # {}
                   THEN PrincipleAssigns(LastAssigning(class))[class]
                   ELSE MoodClasses[class]
        /\ "designPrinciples" \in DOMAIN brand_guidelines =>
               \A list \in Reordered(brand_guidelines.designPrinciples) :
                   generate_layout(image_analysis_results, [brand_guidelines EXCEPT !.designPrinciples = list], layout_style).classes = layout_result.classes

\* the guidelines list "Structured" and " bold " for a professional batch:
\* the border and the header shadow are those of the bold rule, the button
\* is that of the structured rule, and the transition no principle assigns
\* is the one the mood rule set
C23_Witness ==
    /\ LayoutCalled
    /\ layout_result.status = "ok"
    /\ "designPrinciples" \in DOMAIN brand_guidelines
    /\ brand_guidelines.designPrinciples = <<"Structured", " bold ">>
    /\ "professional" \in layout_result.aggregated.inferred_mood_tags
    /\ layout_result.classes.header_shadow_class = "shadow-2xl"
    /\ layout_result.classes.button_rounded_class = "rounded-md"
    /\ layout_result.classes.border_style_class = "border-solid border-accent border-4"
    /\ layout_result.classes.transition_class = "transition-all duration-500 ease-in-out"

(***************************************************************************)
(* suggest_fonts: the font size scale                                      *)
(***************************************************************************)
\* 16 + whitespace * 6 + aesthetic / 10 * 4, times 1.05 for a simple and
\* times 0.95 for a dense batch
ScaleBase(agg) ==
    LET base == RAdd(Rat(16, 1), RAdd(RMul(agg.avg_whitespace, Rat(6, 1)), RMul(RDivInt(agg.avg_aesthetic_score, 10), Rat(4, 1))))
    IN  IF RLess(agg.avg_fractal_dimension, Rat(13, 10)) \/ RLess(agg.avg_entropy, Rat(3, 1))
        THEN RMul(base, Rat(105, 100))
        ELSE IF RLess(Rat(17, 10), agg.avg_fractal_dimension) \/ RLess(Rat(65, 10), agg.avg_entropy)
        THEN RMul(base, Rat(95, 100))
        ELSE base

\* C24: the body size of the font size scale is the rounded base computed
\* from the aggregated features, and it is the size the scoring path gives
\* for the same batch, whether or not the guidelines fix both fonts.
C24_ScaleFromAggregatedFeatures ==
    FontsCalled =>
        /\ font_suggestions.font_size_scale.body = Max2(1, RoundDiv(ScaleBase(font_suggestions.aggregated)[1], ScaleBase(font_suggestions.aggregated)[2]))
        /\ font_suggestions.font_size_scale = ScoredSuggestion(image_analysis_results, EmptyDict).font_size_scale

\* the same for the calls that reach the scoring loop
C24_ScaleOfScoredCalls ==
    (FontsCalled /\ ~BothFontsSet(brand_guidelines)) =>
        font_suggestions.font_size_scale.body = Max2(1, RoundDiv(ScaleBase(font_suggestions.aggregated)[1], ScaleBase(font_suggestions.aggregated)[2]))

(***************************************************************************)
(* suggest_js_components: the calm image in a minimal layout               *)
(***************************************************************************)
\* the batch of the claim: both symmetries above 0.8, aesthetic score at
\* least 8, fractal dimension below 1.3, mood tags calm, minimalist, balanced
CalmImageBatch(agg) ==
    /\ RLess(Rat(8, 10), agg.avg_h_symmetry)
    /\ RLess(Rat(8, 10), agg.avg_v_symmetry)
    /\ RLeq(Rat(8, 1), agg.avg_aesthetic_score)
    /\ RLess(agg.avg_fractal_dimension, Rat(13, 10))
    /\ agg.inferred_mood_tags = {"calm", "minimalist", "balanced"}

Suggested(component) == component \in Range(js_component_suggestions.suggestions)

\* C25: for the minimal style, an empty guideline record and the calm batch
\* the suggestions contain Modal/Dialog, Accordion/Collapse, Smooth
\* Scroll/Scroll-to-Top Button and Tooltip/Popover System.
C25_CalmMinimalSuggestions ==
    (JsCalled /\ layout_style = "minimal" /\ DOMAIN brand_guidelines = {} /\ CalmImageBatch(js_component_suggestions.aggregated)) =>
        /\ Suggested("Modal/Dialog")
        /\ Suggested("Accordion/Collapse")
        /\ Suggested("Smooth Scroll/Scroll-to-Top Button")
        /\ Suggested("Tooltip/Popover System")

\* the three components of the minimal rules are suggested for that batch
C25_CalmMinimalStyleComponents ==
    (JsCalled /\ layout_style = "minimal" /\ DOMAIN brand_guidelines = {} /\ CalmImageBatch(js_component_suggestions.aggregated)) =>
        /\ Suggested("Modal/Dialog")
        /\ Suggested("Accordion/Collapse")
        /\ Suggested("Smooth Scroll/Scroll-to-Top Button")

(***************************************************************************)
(* suggest_fonts: guidelines that fix one of the two fonts                 *)
(***************************************************************************)
OnlyHeadingSet(g) == Truthy(Get(g, "headingFont")) /\ ~Truthy(Get(g, "bodyFont"))

OnlyBodySet(g) == ~Truthy(Get(g, "headingFont")) /\ Truthy(Get(g, "bodyFont"))

\* the pairing the scoring loop of the call selected
SelectedPairing ==
    BestPairing(1, Rat(-1, 1), <<>>,
                font_suggestions.aggregated.inferred_mood_tags \cup DesignPrinciplesOf(font_suggestions.active_brand_guidelines),
                font_suggestions.aggregated.inferred_typography_tags \cup DesignPrinciplesOf(font_suggestions.active_brand_guidelines),
                font_suggestions.aggregated, Get(brand_guidelines, "headingFont"), Get(brand_guidelines, "bodyFont")).pairing

\* C26: when the guidelines fix exactly one of headingFont and bodyFont, the
\* call returns that brand font in its field and takes the other font from
\* the selected pairing.
C26_HalfSpecifiedBrandFontKept ==
    (FontsCalled /\ font_suggestions.status = "ok") =>
        /\ OnlyHeadingSet(brand_guidelines) =>
               /\ font_suggestions.heading_font = brand_guidelines.headingFont
               /\ font_suggestions.body_font = SelectedPairing[2]
        /\ OnlyBodySet(brand_guidelines) =>
               /\ font_suggestions.body_font = brand_guidelines.bodyFont
               /\ font_suggestions.heading_font = SelectedPairing[1]

\* the font the guidelines leave open is the one of the selected pairing
C26_OpenFontFromSelectedPairing ==
    (FontsCalled /\ font_suggestions.status = "ok") =>
        /\ OnlyHeadingSet(brand_guidelines) => font_suggestions.body_font = SelectedPairing[2]
        /\ OnlyBodySet(brand_guidelines) => font_suggestions.heading_font = SelectedPairing[1]

(***************************************************************************)
(* The guidelines the three suggesters synthesize for an empty record      *)
(***************************************************************************)
\* the aggregated values of a call, restricted to those all three compute
SharedAggregate(agg) ==
    [f \in {"avg_whitespace", "avg_h_symmetry", "avg_v_symmetry", "avg_fractal_dimension", "avg_entropy", "avg_visual_balance", "avg_aesthetic_score", "inferred_mood_tags", "inferred_typography_tags"} |-> agg[f]]

\* the layoutPreference, the set of designPrinciples and the aggregated
\* values of a call that returned
Synthesized(result) ==
    [layoutPreference |-> Get(result.active_brand_guidelines, "layoutPreference"),
     designPrinciples |-> DesignPrinciplesOf(result.active_brand_guidelines),
     aggregated |-> SharedAggregate(result.aggregated)]

\* C27: for an empty guideline record the calls of suggest_fonts,
\* suggest_js_components and generate_layout of one request synthesize the
\* same layoutPreference and the same set of designPrinciples from the same
\* aggregated values, and a layoutPreference is always synthesized.
C27_SameSynthesizedGuidelines ==
    DOMAIN brand_guidelines = {} =>
        /\ FontsCalled => Synthesized(font_suggestions).layoutPreference \in {"minimalist", "bold", "modern", "classic"}
        /\ JsCalled => Synthesized(js_component_suggestions) = Synthesized(font_suggestions)
        /\ LayoutCalled => Synthesized(layout_result) = Synthesized(font_suggestions)

\* all three were called for a batch of two records and synthesized
\* "modern" with the principle "organic"
C27_Witness ==
    /\ DOMAIN brand_guidelines = {}
    /\ LayoutCalled
    /\ Len(image_analysis_results) = 2
    /\ Synthesized(layout_result).layoutPreference = "modern"
    /\ "organic" \in Synthesized(js_component_suggestions).designPrinciples
    /\ Synthesized(font_suggestions) = Synthesized(layout_result)

(***************************************************************************)
(* The layout style of the component rules and of the rendered layout      *)
(***************************************************************************)
\* C29: in one request the layout style suggest_js_components keyed its
\* rules on is the layout style generate_layout resolved and rendered.
C29_ComponentsKeyedOnRenderedStyle ==
    LayoutCalled => js_component_suggestions.layout_style = layout_result.layout_style

\* the two styles agree when the active guidelines of generate_layout carry
\* none of the four mapped preferences
C29_SameStyleWithoutMappedPreference ==
    (LayoutCalled /\ ActivePreference \notin MappedPreferences) =>
        js_component_suggestions.layout_style = layout_result.layout_style

(***************************************************************************)
(* extract_palette: the text colour of the primary contrast check          *)
(***************************************************************************)
\* the digits of the default palette's codes are written in upper case
UpperHexDigits ==
    <<"0", "1", "2", "3", "4", "5", "6", "7", "8", "9", "A", "B", "C", "D", "E", "F">>

HexDigitValue(ch) == CHOOSE k \in 0..15 : HexDigits[k + 1] = ch \/ UpperHexDigits[k + 1] = ch

\* the colour a "#rrggbb" code of the palette stands for
RgbOfHex(hex) ==
    [k \in 1..3 |-> 16 * HexDigitValue(SubSeq(hex, 2 * k, 2 * k)) + HexDigitValue(SubSeq(hex, 2 * k + 1, 2 * k + 1))]

\* extract_palette returned a palette computed from pixels
PaletteComputed == PaletteExtracted /\ palette_data.status = "ok" /\ "color_harmony_score" \in DOMAIN palette_data

PrimaryOfPalette == RgbOfHex(palette_data.palette.primary)

\* the higher of the contrast ratios of black and of white against the
\* primary, to the two decimals the checks report
BestTextContrast ==
    RMax(RoundRatio(get_contrast_ratio(PrimaryOfPalette, <<0, 0, 0>>)), RoundRatio(get_contrast_ratio(PrimaryOfPalette, <<255, 255, 255>>)))

\* black or white reaches the AA threshold for normal text on the primary
BlackOrWhitePasses ==
    \/ check_wcag_compliance(get_contrast_ratio(PrimaryOfPalette, <<0, 0, 0>>)).AA_normal_text
    \/ check_wcag_compliance(get_contrast_ratio(PrimaryOfPalette, <<255, 255, 255>>)).AA_normal_text

PrimaryTextFlagged ==
    \E k \in 1..Len(palette_data.accessibility_suggestions) :
        palette_data.accessibility_suggestions[k].issue = "Primary color contrast with text"

C28_TextCheckOfChosenColor ==
    PaletteComputed =>
        (PrimaryTextFlagged <=> ~check_wcag_compliance(get_contrast_ratio(PrimaryOfPalette, text_color_for_contrast(PrimaryOfPalette))).AA_normal_text)

(***************************************************************************)
(* calculate_color_harmony_score: a fired rule against the base score      *)
(***************************************************************************)
\* C30: a palette of two or more colours that triggers a harmony rule is
\* never scored below the base score 3.0 of a palette that triggers none.
C30_RuleNeverScoresBelowBase ==
    (HarmonyScored /\ Len(harmony_colors) >= 2 /\ ~NoRuleFired) => RLeq(Rat(3, 1), harmony_result.score)

\* a palette that triggers a rule is scored at least 1.5, the bonus of one
\* rule after the normalisation
C30_RuleScoresAtLeastOneBonus ==
    (HarmonyScored /\ Len(harmony_colors) >= 2 /\ ~NoRuleFired) => RLeq(Rat(3, 2), harmony_result.score)

====
